---- MODULE Spec2Model ----
(***************************************************************************)
(* Verification model of the mycoroutine library: Fiber, Scheduler,        *)
(* TimerManager and IOManager.                                             *)
(*                                                                         *)
(* The module holds four state machines, each over its own group of        *)
(* variables plus the task queue and the position of the idle() thread:    *)
(*   SpecFiber  Fiber + Scheduler (worker loop, idle fiber, stop)          *)
(*   SpecTimer  Timer + TimerManager, the reactor's drain and the workers  *)
(*              that run drained callables                                 *)
(*   SpecIO     IOManager: FdContext arming, the reactor's event loop      *)
(*   SpecHook   the interposed system calls on top of the IOManager and    *)
(*              its timers                                                 *)
(* Each specification leaves the other groups unchanged.                   *)
(***************************************************************************)
EXTENDS Integers, Sequences, FiniteSets, TLC

VARIABLES
    \* ---- Fiber / Scheduler ----
    m_state,            \* Fiber::m_state per fiber ("NONE" = not constructed)
    f_mutex,            \* Fiber::m_mutex per fiber: holder thread or NoThread
    f_iscb,             \* the fiber is a cb_fiber, owned by run() alone
    f_cb,               \* Fiber::m_cb: 0 = nullptr, 1 = body given at construction, 2 = body given by reset
    f_left,             \* yields the body of a fiber still performs before it returns
    t_fiber,            \* thread-local t_fiber
    t_thread_fiber,     \* thread-local t_thread_fiber
    t_scheduler_fiber,  \* thread-local t_scheduler_fiber
    t_scheduler,        \* thread-local t_scheduler (TRUE = this scheduler)
    t_chain,            \* per thread: fibers suspended inside a resume() they called
    m_tasks,            \* Scheduler::m_tasks
    m_useCaller,        \* Scheduler::m_useCaller
    m_stopping,         \* Scheduler::m_stopping
    m_started,          \* start() has spawned the threads
    m_activeThreadCount,
    m_idleThreadCount,
    w_pc,               \* position of each thread in Scheduler::run
    w_task,             \* run(): the local ScheduleTask `task`
    w_fiber,            \* run(): the fiber being resumed (task.fiber, cb_fiber or idle_fiber)
    stop_pc,            \* position of the caller of stop()
    stop_thread,        \* the thread that called stop()
    aborted,            \* an assert failed: the process is gone
    pre_stop,           \* history: the tasks enqueued before stop() was called: how many there
                        \* were (had) and how many are still at the head of m_tasks (left);
                        \* and the calls of stop() made so far (calls)
    \* ---- FdManager::get and the growth of the two fd tables ----
    datas_size,         \* FdManager::m_datas.size()
    datas_ctx,          \* FdManager::m_datas[fd]: the FdCtx it points to, NullCtx for nullptr
    ctx_made,           \* FdCtx objects constructed so far
    ctx_flags,          \* the FdCtx objects on which setUserNonblock(true) was called
    fdContexts_size,    \* IOManager::m_fdContexts.size()
    get_call,           \* per calling thread: the get / del / addEvent it is inside
    \* ---- Timer::reset ----
    reset_call,         \* per timer: the reset() between its erase and its addTimer
    \* ---- IOManager: waking the workers ----
    tickle_ready,       \* kernel: m_tickleFds was written and epoll_wait has not returned it yet
    need_tickle,        \* scheduleLock: m_mutex is released with need_tickle = true and
                        \* tickle() is not called yet
    in_wait,            \* the threads whose idle() is inside epoll_wait
    \* ---- IOManager ----
    events,             \* FdContext::events per fd: the armed events
    event_ctx,          \* FdContext::read / FdContext::write per fd: the EventContext slots
    fd_mutex,           \* FdContext::mutex per fd: holder or NoThread
    m_pendingEventCount,
    k_interest,         \* kernel: the epoll interest list of m_epfd, per fd
    k_ready,            \* kernel: readiness not yet returned by epoll_wait, per fd
    idle_pc,            \* position of the thread running IOManager::idle
    ep_events,          \* idle(): the events epoll_wait returned, not yet processed
    op,                 \* per calling thread: the IOManager operation it is inside
    rt,                 \* per calling thread: what its last IOManager operation returned
    last_add,           \* history: the FdContext and the counter as the latest successful
                        \* addEvent found them, valid while only its caller's delEvent of the
                        \* same event has followed
    io_adds,            \* addEvent calls that have succeeded
    \* ---- Timer / TimerManager ----
    clock,              \* std::chrono::system_clock::now(), in clock readings (Res to a ms)
    m_previouseTime,    \* TimerManager::m_previouseTime
    m_tickled,          \* TimerManager::m_tickled
    created,            \* per timer: addTimer(ms, cb, recurring) has constructed it
    m_ms,               \* Timer::m_ms per timer
    m_next,             \* Timer::m_next per timer
    m_recurring,        \* Timer::m_recurring per timer
    m_cb,               \* Timer::m_cb per timer: FALSE = nullptr
    m_timers,           \* TimerManager::m_timers: the timers that are members of the set
    now,                \* listExpiredCb: the local `now`
    rollover,           \* listExpiredCb: the local `rollover`
    temp,               \* listExpiredCb: the local `temp`
    cbs,                \* idle(): the vector listExpiredCb fills, as timers whose m_cb was copied
    cancelled,          \* history: Timer::cancel() of the timer has returned true
    refused,            \* history: the timers of which a Timer::cancel() has returned false
    fired,              \* history: the timers of which listExpiredCb has handed out the callable
    last_refresh,       \* history: the latest Timer::refresh() that went through, while no other
                        \* call on the TimerManager has followed: the set before and after it
    d_timers,           \* history: m_timers when the running listExpiredCb took the lock
    d_next,             \* history: m_next of every timer at that moment
    next_timeout,       \* idle(): the local `next_timeout` handed to epoll_wait
    at_front,           \* addTimer(timer): the calls that left m_mutex with at_front = true and
                        \* have not called onTimerInsertedAtFront yet, by timer
    front_calls,        \* history: calls of onTimerInsertedAtFront since the last getNextTimer
    \* ---- hook: the interposed calls, FdManager and the kernel's files ----
    t_hook_enable,      \* thread-local t_hook_enable of the thread each caller runs on
    m_datas,            \* FdManager::m_datas per fd: the FdCtx, or NoCtx
    k_open,             \* kernel: the fd is open
    k_nonblock,         \* kernel: O_NONBLOCK of the open file
    h_pc,               \* position of each caller in its interposed call
    h_call,             \* the interposed call: function and fd
    h_timeout,          \* do_io: the local `timeout`
    tinfo,              \* do_io: tinfo->cancelled
    h_ret,              \* the value the interposed call returned
    h_errno,            \* errno of the caller's thread
    h_pending           \* callers whose resume task a worker holds, blocked on Fiber::m_mutex

fiberVars == <<m_state, f_mutex, f_iscb, f_cb, f_left, t_fiber, t_thread_fiber, t_scheduler_fiber,
               t_scheduler, t_chain, m_tasks, m_useCaller, m_stopping, m_started,
               m_activeThreadCount, m_idleThreadCount, w_pc, w_task, w_fiber, stop_pc,
               stop_thread, aborted, pre_stop>>

\* the Scheduler state an IOManager writes outside run(): the task queue, and the abort
fiberRest == <<m_state, f_mutex, f_iscb, f_cb, f_left, t_fiber, t_thread_fiber,
               t_scheduler_fiber, t_scheduler, t_chain, m_useCaller, m_stopping, m_started,
               m_activeThreadCount, m_idleThreadCount, w_pc, w_task, w_fiber, stop_pc,
               stop_thread, pre_stop>>

ioVars == <<events, event_ctx, fd_mutex, m_pendingEventCount, k_interest, k_ready, idle_pc,
            ep_events, op, rt, last_add, io_adds>>

\* the IOManager state apart from the position of the idle() thread
ioRest == <<events, event_ctx, fd_mutex, m_pendingEventCount, k_interest, k_ready, ep_events,
            op, rt, last_add, io_adds>>

timerVars == <<clock, m_previouseTime, m_tickled, created, m_ms, m_next, m_recurring, m_cb,
               m_timers, now, rollover, temp, cbs, cancelled, refused, d_timers, d_next,
               fired, last_refresh,
                   next_timeout, at_front, front_calls>>

hookVars == <<t_hook_enable, m_datas, k_open, k_nonblock, h_pc, h_call, h_timeout, tinfo,
              h_ret, h_errno, h_pending>>

wakeVars == <<tickle_ready, need_tickle, in_wait>>

tableVars == <<datas_size, datas_ctx, ctx_made, ctx_flags, fdContexts_size, get_call>>

resetVars == <<reset_call>>

\* what the steps of run() and of the fibers leave alone
beyondRun == <<ioVars, timerVars, hookVars, tableVars, resetVars>>

notFiberVars == <<beyondRun, wakeVars>>

notIOVars == <<fiberRest, timerVars, hookVars, wakeVars, tableVars, resetVars>>

\* what the TimerManager steps leave alone: they write timerVars, idle_pc and m_tasks
notTimerVars == <<fiberRest, ioRest, aborted, hookVars, wakeVars, tableVars, resetVars>>

vars == <<fiberVars, ioVars, timerVars, hookVars, wakeVars, tableVars, resetVars>>

\* what the steps of FdManager::get, FdManager::del and the lookup of addEvent leave alone
notTableVars == <<fiberVars, ioVars, timerVars, hookVars, wakeVars, resetVars>>

----------------------------------------------------------------------------
(* Bounds *)
NumTasks == 1           \* tasks (fibers with a body, or callables) the user has in flight
MaxYields == 1          \* yields a body performs at most
QueueTasks == 2         \* callables in flight in the runs that look at the order of the queue
MaxStops == 2           \* calls of stop() in one run

(* Program configuration *)
ThreadsArg == 2         \* the `threads` argument of the Scheduler constructor

Main == 0               \* the thread that constructs the scheduler
Ext == 3                \* a thread that is not a worker and did not construct it
Threads == 0 .. 3
NoThread == -1
AnyThread == -1         \* ScheduleTask::thread == -1

NoFiber == 0
TaskFibers == 1 .. NumTasks     \* a task fiber is made by the user, or by run() for callable c
Cbs == 1 .. NumTasks
Root(t) == 100 + t
IdleF(t) == 200 + t
SchedF == 300
CbFiber(c) == c
QueueCbs == 1 .. QueueTasks
BodyFibers == TaskFibers \cup QueueCbs
Fibers == BodyFibers \cup {SchedF}
              \cup {Root(t) : t \in Threads} \cup {IdleF(t) : t \in Threads}

\* Fiber::m_runInScheduler: only the caller's scheduler fiber is built with false
RunInScheduler(f) == f # SchedF

NoTask == [fiber |-> NoFiber, cb |-> 0, thread |-> AnyThread]

\* Scheduler constructor: threads-- when use_caller
ThreadCount(useCaller) == IF useCaller THEN ThreadsArg - 1 ELSE ThreadsArg
Spawned == 1 .. ThreadCount(m_useCaller)
m_rootThread == IF m_useCaller THEN Main ELSE -1

----------------------------------------------------------------------------
(* Fiber *)

\* Fiber::resume: the state written by resume
ResumeState(s) == "RUNNING"

\* Fiber::yield: a fiber that is not TERM becomes READY
YieldStateKeep(s) == s
YieldStateReady(s) == "READY"
YieldState(s) == IF s # "TERM" THEN "READY" ELSE s

\* Fiber::yield: the fiber control goes back to
YieldTarget(t, f) == IF RunInScheduler(f) THEN t_scheduler_fiber[t] ELSE t_thread_fiber[t]

\* Fiber::resume, called on thread t by the fiber that is current there.
\* assert(m_state == READY) aborts the process.
Resume(t, f) ==
    IF m_state[f] # "READY"
    THEN /\ aborted' = TRUE
         /\ UNCHANGED <<m_state, t_fiber, t_chain>>
    ELSE /\ m_state' = [m_state EXCEPT ![f] = ResumeState(@)]
         /\ t_fiber' = [t_fiber EXCEPT ![t] = f]
         /\ t_chain' = [t_chain EXCEPT ![t] = Append(@, t_fiber[t])]
         /\ UNCHANGED aborted

\* Fiber::yield, called on thread t by fiber f itself.
\* assert(m_state == RUNNING || m_state == TERM) aborts the process.
Yield(t, f) ==
    IF m_state[f] \notin {"RUNNING", "TERM"}
    THEN /\ aborted' = TRUE
         /\ UNCHANGED <<m_state, t_fiber, t_chain>>
    ELSE /\ m_state' = [m_state EXCEPT ![f] = YieldState(@)]
         /\ t_fiber' = [t_fiber EXCEPT ![t] = YieldTarget(t, f)]
         /\ t_chain' = [t_chain EXCEPT ![t] = SubSeq(@, 1, Len(@) - 1)]
         /\ UNCHANGED aborted

\* Scheduler::stopping
StoppingFlagOnly == m_stopping
StoppingWhenNoneIdle == m_stopping /\ m_tasks = <<>> /\ m_idleThreadCount = 0
Stopping == m_stopping /\ m_tasks = <<>> /\ m_activeThreadCount = 0

InQueue(f) == \E i \in 1 .. Len(m_tasks) : m_tasks[i].fiber = f

----------------------------------------------------------------------------
(* Initial state: the Scheduler constructor has run on thread Main *)
FiberInit ==
    /\ m_useCaller \in BOOLEAN
    /\ m_state = [f \in Fibers |->
                    IF m_useCaller /\ f = Root(Main) THEN "RUNNING"
                    ELSE IF m_useCaller /\ f = SchedF THEN "READY"
                    ELSE "NONE"]
    /\ f_mutex = [f \in Fibers |-> NoThread]
    /\ f_iscb = [f \in Fibers |-> FALSE]
    /\ f_cb = [f \in Fibers |-> IF m_useCaller /\ f = SchedF THEN 1 ELSE 0]
    /\ f_left = [f \in Fibers |-> 0]
    /\ t_fiber = [t \in Threads |-> IF m_useCaller /\ t = Main THEN Root(Main) ELSE NoFiber]
    /\ t_thread_fiber = [t \in Threads |-> IF m_useCaller /\ t = Main THEN Root(Main) ELSE NoFiber]
    /\ t_scheduler_fiber = [t \in Threads |-> IF m_useCaller /\ t = Main THEN SchedF ELSE NoFiber]
    /\ t_scheduler = [t \in Threads |-> t = Main]
    /\ t_chain = [t \in Threads |-> <<>>]
    /\ m_tasks = <<>>
    /\ m_stopping = FALSE
    /\ m_started = FALSE
    /\ m_activeThreadCount = 0
    /\ m_idleThreadCount = 0
    /\ w_pc = [t \in Threads |-> "none"]
    /\ w_task = [t \in Threads |-> NoTask]
    /\ w_fiber = [t \in Threads |-> NoFiber]
    /\ stop_pc = "none"
    /\ stop_thread = NoThread
    /\ aborted = FALSE
    /\ pre_stop = [had |-> 0, left |-> 0, calls |-> 0]

----------------------------------------------------------------------------
(* User code: creating, scheduling and recycling fibers *)

\* task id c is not in use: no fiber, and no callable c queued or taken by a worker
FreeId(c) ==
    /\ m_state[c] = "NONE"
    /\ \A i \in 1 .. Len(m_tasks) : m_tasks[i].cb # c
    /\ \A t \in Threads : w_task[t].cb # c

\* Fiber::Fiber(cb, stacksize, run_in_scheduler): a fiber with a body starts READY
UserCreateFiber(f) ==
    /\ ~aborted
    /\ UNCHANGED notFiberVars
    /\ UNCHANGED pre_stop
    /\ FreeId(f)
    /\ \E n \in 0 .. MaxYields : f_left' = [f_left EXCEPT ![f] = n]
    /\ m_state' = [m_state EXCEPT ![f] = "READY"]
    /\ f_cb' = [f_cb EXCEPT ![f] = 1]
    /\ UNCHANGED <<f_mutex, f_iscb, t_fiber, t_thread_fiber, t_scheduler_fiber, t_scheduler, t_chain,
                   m_tasks, m_useCaller, m_stopping, m_started, m_activeThreadCount,
                   m_idleThreadCount, w_pc, w_task, w_fiber, stop_pc, stop_thread, aborted>>

\* Threads a task may be pinned to
Targets == {AnyThread} \cup Spawned \cup (IF m_useCaller THEN {Main} ELSE {})

\* Scheduler::scheduleLock: push_back under m_mutex (tickle() is a no-op in Scheduler)
ScheduleLock(task) == m_tasks' = Append(m_tasks, task)

\* scheduleLock(fiber, thread) from user code
UserScheduleFiber(f, thr) ==
    /\ ~aborted
    /\ UNCHANGED notFiberVars
    /\ UNCHANGED pre_stop
    /\ m_state[f] # "NONE"
    /\ ~f_iscb[f]
    /\ ~InQueue(f)
    /\ ScheduleLock([fiber |-> f, cb |-> 0, thread |-> thr])
    /\ UNCHANGED <<m_state, f_mutex, f_iscb, f_cb, f_left, t_fiber, t_thread_fiber, t_scheduler_fiber,
                   t_scheduler, t_chain, m_useCaller, m_stopping, m_started,
                   m_activeThreadCount, m_idleThreadCount, w_pc, w_task, w_fiber, stop_pc,
                   stop_thread, aborted>>

\* scheduleLock(cb, thread) from user code; each callable is in flight once at a time
UserScheduleCb(c, thr) ==
    /\ ~aborted
    /\ UNCHANGED notFiberVars
    /\ UNCHANGED pre_stop
    /\ FreeId(c)
    /\ ScheduleLock([fiber |-> NoFiber, cb |-> c, thread |-> thr])
    /\ UNCHANGED <<m_state, f_mutex, f_iscb, f_cb, f_left, t_fiber, t_thread_fiber, t_scheduler_fiber,
                   t_scheduler, t_chain, m_useCaller, m_stopping, m_started,
                   m_activeThreadCount, m_idleThreadCount, w_pc, w_task, w_fiber, stop_pc,
                   stop_thread, aborted>>

\* Fiber::reset: m_state = READY
ResetState(s) == "READY"

\* Fiber::reset from user code, which obeys assert(m_stack != nullptr && m_state == TERM)
UserReset(f) ==
    /\ ~aborted
    /\ UNCHANGED notFiberVars
    /\ UNCHANGED pre_stop
    /\ m_state[f] = "TERM"
    /\ m_state' = [m_state EXCEPT ![f] = ResetState(@)]
    /\ f_cb' = [f_cb EXCEPT ![f] = 2]
    /\ \E n \in 0 .. MaxYields : f_left' = [f_left EXCEPT ![f] = n]
    /\ UNCHANGED <<f_mutex, f_iscb, t_fiber, t_thread_fiber, t_scheduler_fiber, t_scheduler, t_chain,
                   m_tasks, m_useCaller, m_stopping, m_started, m_activeThreadCount,
                   m_idleThreadCount, w_pc, w_task, w_fiber, stop_pc, stop_thread, aborted>>

----------------------------------------------------------------------------
(* Scheduler::start and Scheduler::run *)

\* Scheduler::start: spawns m_threadCount threads running run()
Start ==
    /\ ~aborted
    /\ UNCHANGED notFiberVars
    /\ UNCHANGED pre_stop
    /\ ~m_started
    /\ m_started' = TRUE
    /\ w_pc' = [t \in Threads |-> IF ~m_stopping /\ t \in Spawned THEN "start" ELSE w_pc[t]]
    /\ UNCHANGED <<m_state, f_mutex, f_iscb, f_cb, f_left, t_fiber, t_thread_fiber, t_scheduler_fiber,
                   t_scheduler, t_chain, m_tasks, m_useCaller, m_stopping,
                   m_activeThreadCount, m_idleThreadCount, w_task, w_fiber, stop_pc,
                   stop_thread, aborted>>

\* run() prologue: SetThis(); Fiber::GetThis() on a spawned thread (the root fiber is
\* constructed RUNNING and becomes t_fiber, t_thread_fiber and t_scheduler_fiber);
\* idle_fiber = make_shared<Fiber>(idle)
WorkerStart(t) ==
    /\ ~aborted
    /\ UNCHANGED notFiberVars
    /\ UNCHANGED pre_stop
    /\ w_pc[t] = "start"
    /\ t_scheduler' = [t_scheduler EXCEPT ![t] = TRUE]
    /\ IF t # m_rootThread /\ t_fiber[t] = NoFiber
       THEN /\ m_state' = [m_state EXCEPT ![Root(t)] = "RUNNING", ![IdleF(t)] = "READY"]
            /\ t_fiber' = [t_fiber EXCEPT ![t] = Root(t)]
            /\ t_thread_fiber' = [t_thread_fiber EXCEPT ![t] = Root(t)]
            /\ t_scheduler_fiber' = [t_scheduler_fiber EXCEPT ![t] = Root(t)]
       ELSE /\ m_state' = [m_state EXCEPT ![IdleF(t)] = "READY"]
            /\ UNCHANGED <<t_fiber, t_thread_fiber, t_scheduler_fiber>>
    /\ f_cb' = [f_cb EXCEPT ![IdleF(t)] = 1]
    /\ w_pc' = [w_pc EXCEPT ![t] = "fetch"]
    /\ UNCHANGED <<f_mutex, f_iscb, f_left, t_chain, m_tasks, m_useCaller, m_stopping,
                   m_started, m_activeThreadCount, m_idleThreadCount, w_task, w_fiber,
                   stop_pc, stop_thread, aborted>>

\* run(): a task is eligible for thread t when it is unpinned or pinned to t
EligibleAny(task, t) == TRUE
Eligible(task, t) == task.thread = AnyThread \/ task.thread = t

\* run(): index of the first eligible task in m_tasks, 0 when there is none
LastEligible(q, t) ==
    IF \E i \in 1 .. Len(q) : Eligible(q[i], t)
    THEN CHOOSE i \in 1 .. Len(q) :
            /\ Eligible(q[i], t)
            /\ \A j \in (i + 1) .. Len(q) : ~Eligible(q[j], t)
    ELSE 0
FirstEligible(q, t) ==
    IF \E i \in 1 .. Len(q) : Eligible(q[i], t)
    THEN CHOOSE i \in 1 .. Len(q) :
            /\ Eligible(q[i], t)
            /\ \A j \in 1 .. (i - 1) : ~Eligible(q[j], t)
    ELSE 0

RemoveAt(q, i) == SubSeq(q, 1, i - 1) \o SubSeq(q, i + 1, Len(q))

\* run() steps 1-3 up to the fiber lock: scan m_tasks under m_mutex, take the first
\* eligible task (m_activeThreadCount++); a fiber task is resumed as it is, a callable
\* task gets cb_fiber = make_shared<Fiber>(task.cb), which starts READY
FetchTask(t) ==
    /\ ~aborted
    /\ w_pc[t] = "fetch"
    /\ LET i == FirstEligible(m_tasks, t) IN
       IF i # 0
       THEN /\ w_task' = [w_task EXCEPT ![t] = m_tasks[i]]
            /\ m_tasks' = RemoveAt(m_tasks, i)
            /\ pre_stop' = IF i <= pre_stop.left THEN [pre_stop EXCEPT !.left = @ - 1]
                            ELSE pre_stop
            /\ m_activeThreadCount' = m_activeThreadCount + 1
            /\ w_pc' = [w_pc EXCEPT ![t] = "lock"]
            /\ IF m_tasks[i].fiber # NoFiber
               THEN /\ w_fiber' = [w_fiber EXCEPT ![t] = m_tasks[i].fiber]
                    /\ UNCHANGED <<m_state, f_cb, f_left>>
               ELSE /\ w_fiber' = [w_fiber EXCEPT ![t] = CbFiber(m_tasks[i].cb)]
                    /\ m_state' = [m_state EXCEPT ![CbFiber(m_tasks[i].cb)] = "READY"]
                    /\ \E n \in 0 .. MaxYields :
                          f_left' = [f_left EXCEPT ![CbFiber(m_tasks[i].cb)] = n]
                    /\ f_cb' = [f_cb EXCEPT ![CbFiber(m_tasks[i].cb)] = 1]
            /\ f_iscb' = IF m_tasks[i].fiber # NoFiber THEN f_iscb
                         ELSE [f_iscb EXCEPT ![CbFiber(m_tasks[i].cb)] = TRUE]
       ELSE /\ w_task' = [w_task EXCEPT ![t] = NoTask]
            /\ w_pc' = [w_pc EXCEPT ![t] = "exec"]
            /\ UNCHANGED <<m_tasks, m_activeThreadCount, w_fiber, m_state, f_cb, f_left, f_iscb,
                           pre_stop>>
    /\ UNCHANGED <<f_mutex, t_fiber, t_thread_fiber, t_scheduler_fiber,
                   t_scheduler, t_chain, m_useCaller, m_stopping, m_started,
                   m_idleThreadCount, stop_pc, stop_thread, aborted>>

\* std::lock_guard<std::mutex> lock(fiber->m_mutex) goes on when no thread holds it
MutexFreeAlways(f) == TRUE
MutexFree(f) == f_mutex[f] = NoThread

\* run() of a Scheduler, whose tickle() does nothing
Fetch(t) ==
    /\ FetchTask(t)
    /\ UNCHANGED notFiberVars

\* run() step 3: lock_guard(fiber->m_mutex); resume unless the fiber is TERM
ExecResume(t) ==
    /\ ~aborted
    /\ UNCHANGED notFiberVars
    /\ UNCHANGED pre_stop
    /\ w_pc[t] = "lock"
    /\ MutexFree(w_fiber[t])
    /\ f_mutex' = [f_mutex EXCEPT ![w_fiber[t]] = t]
    /\ IF m_state[w_fiber[t]] # "TERM"
       THEN /\ Resume(t, w_fiber[t])
            /\ w_pc' = [w_pc EXCEPT ![t] = "in_fiber"]
       ELSE /\ w_pc' = [w_pc EXCEPT ![t] = "after_task"]
            /\ UNCHANGED <<m_state, t_fiber, t_chain, aborted>>
    /\ UNCHANGED <<f_iscb, f_cb, f_left, t_thread_fiber, t_scheduler_fiber, t_scheduler, m_tasks,
                   m_useCaller, m_stopping, m_started, m_activeThreadCount,
                   m_idleThreadCount, w_task, w_fiber, stop_pc, stop_thread>>

\* run() step 4, no task: resume the idle fiber, m_idleThreadCount++
ExecIdle(t) ==
    /\ ~aborted
    /\ UNCHANGED notFiberVars
    /\ UNCHANGED pre_stop
    /\ w_pc[t] = "exec"
    /\ w_task[t] = NoTask
    /\ m_state[IdleF(t)] # "TERM"
    /\ m_idleThreadCount' = m_idleThreadCount + 1
    /\ Resume(t, IdleF(t))
    /\ w_fiber' = [w_fiber EXCEPT ![t] = IdleF(t)]
    /\ w_pc' = [w_pc EXCEPT ![t] = "in_fiber"]
    /\ UNCHANGED <<f_mutex, f_iscb, f_cb, f_left, t_thread_fiber, t_scheduler_fiber, t_scheduler, m_tasks,
                   m_useCaller, m_stopping, m_started, m_activeThreadCount, w_task,
                   stop_pc, stop_thread>>

\* run() step 4, no task and the idle fiber is TERM: run() returns.  On a spawned
\* thread the thread ends and its thread-local root fiber and idle fiber are destroyed;
\* on the caller thread run() is the body of m_schedulerFiber, which returns into
\* MainFunc (m_state = TERM).
ExecExit(t) ==
    /\ ~aborted
    /\ UNCHANGED notFiberVars
    /\ UNCHANGED pre_stop
    /\ w_pc[t] = "exec"
    /\ w_task[t] = NoTask
    /\ m_state[IdleF(t)] = "TERM"
    /\ IF t = m_rootThread
       THEN /\ m_state' = [m_state EXCEPT ![IdleF(t)] = "NONE", ![SchedF] = "TERM"]
            /\ f_cb' = [f_cb EXCEPT ![SchedF] = 0]
            /\ w_pc' = [w_pc EXCEPT ![t] = "trampoline"]
            /\ UNCHANGED <<t_fiber, t_thread_fiber, t_scheduler_fiber>>
       ELSE /\ m_state' = [m_state EXCEPT ![IdleF(t)] = "NONE", ![Root(t)] = "NONE"]
            /\ w_pc' = [w_pc EXCEPT ![t] = "exited"]
            /\ UNCHANGED f_cb
            /\ t_fiber' = [t_fiber EXCEPT ![t] = NoFiber]
            /\ t_thread_fiber' = [t_thread_fiber EXCEPT ![t] = NoFiber]
            /\ t_scheduler_fiber' = [t_scheduler_fiber EXCEPT ![t] = NoFiber]
    /\ w_fiber' = [w_fiber EXCEPT ![t] = NoFiber]
    /\ UNCHANGED <<f_mutex, f_iscb, f_left, t_scheduler, t_chain, m_tasks, m_useCaller,
                   m_stopping, m_started, m_activeThreadCount, m_idleThreadCount, w_task,
                   stop_pc, stop_thread, aborted>>

\* a shared_ptr to fiber f is held besides the one of thread t: by a task in the queue or
\* by the local `task` of another thread's run()
HeldElsewhere(t, f) == InQueue(f) \/ \E u \in Threads \ {t} : w_task[u].fiber = f

\* after resume() returns in run(): the lock_guard releases fiber->m_mutex,
\* m_activeThreadCount--, task.reset(); a cb_fiber nobody else holds is destroyed
AfterTask(t) ==
    /\ ~aborted
    /\ UNCHANGED notFiberVars
    /\ UNCHANGED pre_stop
    /\ w_pc[t] = "after_task"
    /\ f_mutex' = [f_mutex EXCEPT ![w_fiber[t]] = NoThread]
    /\ m_activeThreadCount' = m_activeThreadCount - 1
    /\ IF f_iscb[w_fiber[t]] /\ ~HeldElsewhere(t, w_fiber[t])
       THEN /\ m_state' = [m_state EXCEPT ![w_fiber[t]] = "NONE"]
            /\ f_iscb' = [f_iscb EXCEPT ![w_fiber[t]] = FALSE]
            /\ f_cb' = [f_cb EXCEPT ![w_fiber[t]] = 0]
            /\ f_left' = [f_left EXCEPT ![w_fiber[t]] = 0]
       ELSE UNCHANGED <<m_state, f_iscb, f_cb, f_left>>
    /\ w_task' = [w_task EXCEPT ![t] = NoTask]
    /\ w_fiber' = [w_fiber EXCEPT ![t] = NoFiber]
    /\ w_pc' = [w_pc EXCEPT ![t] = "fetch"]
    /\ UNCHANGED <<t_fiber, t_thread_fiber, t_scheduler_fiber, t_scheduler, t_chain,
                   m_tasks, m_useCaller, m_stopping, m_started, m_idleThreadCount, stop_pc,
                   stop_thread, aborted>>

\* after idle_fiber->resume() returns in run(): m_idleThreadCount--
AfterIdle(t) ==
    /\ ~aborted
    /\ UNCHANGED notFiberVars
    /\ UNCHANGED pre_stop
    /\ w_pc[t] = "after_idle"
    /\ m_idleThreadCount' = m_idleThreadCount - 1
    /\ w_fiber' = [w_fiber EXCEPT ![t] = NoFiber]
    /\ w_pc' = [w_pc EXCEPT ![t] = "fetch"]
    /\ UNCHANGED <<m_state, f_mutex, f_iscb, f_cb, f_left, t_fiber, t_thread_fiber, t_scheduler_fiber,
                   t_scheduler, t_chain, m_tasks, m_useCaller, m_stopping, m_started,
                   m_activeThreadCount, w_task, stop_pc, stop_thread, aborted>>

----------------------------------------------------------------------------
(* Fiber bodies: what runs between resume() and the yield back *)

\* where run() continues on thread t when fiber f has switched back
AfterYieldPc(t, f) == IF f = IdleF(t) THEN "after_idle"
                      ELSE IF f = SchedF THEN "exited"
                      ELSE "after_task"

\* a body calls scheduleLock(Fiber::GetThis()) before it yields
BodyScheduleSelf(t) ==
    /\ ~aborted
    /\ UNCHANGED notFiberVars
    /\ UNCHANGED pre_stop
    /\ w_pc[t] = "in_fiber"
    /\ t_fiber[t] \in BodyFibers
    /\ f_left[t_fiber[t]] > 0
    /\ ~InQueue(t_fiber[t])
    /\ ScheduleLock([fiber |-> t_fiber[t], cb |-> 0, thread |-> AnyThread])
    /\ UNCHANGED <<m_state, f_mutex, f_iscb, f_cb, f_left, t_fiber, t_thread_fiber, t_scheduler_fiber,
                   t_scheduler, t_chain, m_useCaller, m_stopping, m_started,
                   m_activeThreadCount, m_idleThreadCount, w_pc, w_task, w_fiber, stop_pc,
                   stop_thread, aborted>>

\* a body calls Fiber::GetThis()->yield()
BodyYield(t) ==
    /\ ~aborted
    /\ UNCHANGED notFiberVars
    /\ UNCHANGED pre_stop
    /\ w_pc[t] = "in_fiber"
    /\ t_fiber[t] \in BodyFibers
    /\ f_left[t_fiber[t]] > 0
    /\ Yield(t, t_fiber[t])
    /\ f_left' = [f_left EXCEPT ![t_fiber[t]] = @ - 1]
    /\ UNCHANGED f_cb
    /\ w_pc' = [w_pc EXCEPT ![t] = AfterYieldPc(t, t_fiber[t])]
    /\ UNCHANGED <<f_mutex, f_iscb, t_thread_fiber, t_scheduler_fiber, t_scheduler, m_tasks,
                   m_useCaller, m_stopping, m_started, m_activeThreadCount,
                   m_idleThreadCount, w_task, w_fiber, stop_pc, stop_thread>>

\* Fiber::MainFunc after curr->m_cb() returned: m_cb = nullptr; m_state = TERM
BodyReturn(t) ==
    /\ ~aborted
    /\ UNCHANGED notFiberVars
    /\ UNCHANGED pre_stop
    /\ w_pc[t] = "in_fiber"
    /\ t_fiber[t] \in BodyFibers
    /\ f_left[t_fiber[t]] = 0
    /\ m_state' = [m_state EXCEPT ![t_fiber[t]] = "TERM"]
    /\ f_cb' = [f_cb EXCEPT ![t_fiber[t]] = 0]
    /\ w_pc' = [w_pc EXCEPT ![t] = "trampoline"]
    /\ UNCHANGED <<f_mutex, f_iscb, f_left, t_fiber, t_thread_fiber, t_scheduler_fiber, t_scheduler,
                   t_chain, m_tasks, m_useCaller, m_stopping, m_started,
                   m_activeThreadCount, m_idleThreadCount, w_task, w_fiber, stop_pc,
                   stop_thread, aborted>>

\* Scheduler::idle: while(!stopping()) { sleep(1); yield(); }; when stopping() holds
\* the body returns into MainFunc (m_state = TERM)
IdleStep(t) ==
    /\ ~aborted
    /\ UNCHANGED notFiberVars
    /\ UNCHANGED pre_stop
    /\ w_pc[t] = "in_fiber"
    /\ t_fiber[t] = IdleF(t)
    /\ IF Stopping
       THEN /\ m_state' = [m_state EXCEPT ![IdleF(t)] = "TERM"]
            /\ f_cb' = [f_cb EXCEPT ![IdleF(t)] = 0]
            /\ w_pc' = [w_pc EXCEPT ![t] = "trampoline"]
            /\ UNCHANGED <<t_fiber, t_chain, aborted>>
       ELSE /\ Yield(t, IdleF(t))
            /\ w_pc' = [w_pc EXCEPT ![t] = "after_idle"]
            /\ UNCHANGED f_cb
    /\ UNCHANGED <<f_mutex, f_iscb, f_left, t_thread_fiber, t_scheduler_fiber, t_scheduler, m_tasks,
                   m_useCaller, m_stopping, m_started, m_activeThreadCount,
                   m_idleThreadCount, w_task, w_fiber, stop_pc, stop_thread>>

\* Fiber::MainFunc: raw_ptr->yield() of a fiber whose body has returned.  The
\* scheduler fiber switches back into stop() on the caller thread.
TrampolineYield(t) ==
    /\ ~aborted
    /\ UNCHANGED notFiberVars
    /\ UNCHANGED pre_stop
    /\ w_pc[t] = "trampoline"
    /\ Yield(t, t_fiber[t])
    /\ w_pc' = [w_pc EXCEPT ![t] = AfterYieldPc(t, t_fiber[t])]
    /\ stop_pc' = IF t_fiber[t] = SchedF /\ ~aborted' THEN "join" ELSE stop_pc
    /\ UNCHANGED <<f_mutex, f_iscb, f_cb, f_left, t_thread_fiber, t_scheduler_fiber, t_scheduler, m_tasks,
                   m_useCaller, m_stopping, m_started, m_activeThreadCount,
                   m_idleThreadCount, w_task, w_fiber, stop_thread>>

----------------------------------------------------------------------------
(* Scheduler::stop *)

\* stop(): assert(GetThis() == this) with use_caller, assert(GetThis() != this) without,
\* on the thread that calls it
StopAssertsAlways(s) == TRUE
StopAsserts(s) == IF m_useCaller THEN t_scheduler[s] ELSE ~t_scheduler[s]

\* stop() up to the tickles: return at once when stopping() already holds; otherwise
\* m_stopping = true, then assert(GetThis() == this) with use_caller and
\* assert(GetThis() != this) without
StopCall(s) ==
    /\ ~aborted
    /\ UNCHANGED notFiberVars
    /\ stop_thread' = s
    /\ pre_stop' = [had |-> Len(m_tasks), left |-> Len(m_tasks), calls |-> pre_stop.calls + 1]
    /\ IF Stopping
       THEN /\ stop_pc' = "done"
            /\ UNCHANGED <<m_stopping, aborted>>
       ELSE /\ m_stopping' = TRUE
            /\ IF ~StopAsserts(s)
               THEN /\ aborted' = TRUE
                    /\ UNCHANGED stop_pc
               ELSE /\ stop_pc' = IF m_useCaller THEN "resume" ELSE "join"
                    /\ UNCHANGED aborted
    /\ UNCHANGED <<m_state, f_mutex, f_iscb, f_cb, f_left, t_fiber, t_thread_fiber, t_scheduler_fiber,
                   t_scheduler, t_chain, m_tasks, m_useCaller, m_started,
                   m_activeThreadCount, m_idleThreadCount, w_pc, w_task, w_fiber>>

\* the first stop(), from a thread that is not inside run()
StopBegin(s) ==
    /\ stop_pc = "none"
    /\ w_pc[s] = "none"
    /\ StopCall(s)

\* stop() called again after a stop() has returned, as ~IOManager does after the user's
\* stop(): the same code, from a thread that is not inside run()
StopAgain(s) ==
    /\ stop_pc = "done"
    /\ pre_stop.calls < MaxStops
    /\ w_pc[s] \in {"none", "exited"}
    /\ StopCall(s)

\* stop(): m_schedulerFiber->resume(); run() starts on the caller thread
StopResume ==
    /\ ~aborted
    /\ UNCHANGED notFiberVars
    /\ UNCHANGED pre_stop
    /\ stop_pc = "resume"
    /\ Resume(stop_thread, SchedF)
    /\ w_pc' = [w_pc EXCEPT ![stop_thread] = "start"]
    /\ stop_pc' = "in_sched"
    /\ UNCHANGED <<f_mutex, f_iscb, f_cb, f_left, t_thread_fiber, t_scheduler_fiber, t_scheduler, m_tasks,
                   m_useCaller, m_stopping, m_started, m_activeThreadCount,
                   m_idleThreadCount, w_task, w_fiber, stop_thread>>

\* stop(): thrs.swap(m_threads); join every thread start() has spawned (none when
\* start() was not called, or was called when m_stopping was already set)
StopJoin ==
    /\ ~aborted
    /\ UNCHANGED notFiberVars
    /\ UNCHANGED pre_stop
    /\ stop_pc = "join"
    /\ \A t \in Spawned : w_pc[t] \in {"none", "exited"}
    /\ stop_pc' = "done"
    /\ UNCHANGED <<m_state, f_mutex, f_iscb, f_cb, f_left, t_fiber, t_thread_fiber, t_scheduler_fiber,
                   t_scheduler, t_chain, m_tasks, m_useCaller, m_stopping, m_started,
                   m_activeThreadCount, m_idleThreadCount, w_pc, w_task, w_fiber,
                   stop_thread, aborted>>

----------------------------------------------------------------------------
FiberNext ==
    \/ \E f \in TaskFibers : UserCreateFiber(f)
    \/ \E f \in TaskFibers, thr \in Targets : UserScheduleFiber(f, thr)
    \/ \E c \in Cbs, thr \in Targets : UserScheduleCb(c, thr)
    \/ \E f \in TaskFibers : UserReset(f)
    \/ Start
    \/ \E t \in Threads : WorkerStart(t)
    \/ \E t \in Threads : Fetch(t)
    \/ \E t \in Threads : ExecResume(t)
    \/ \E t \in Threads : ExecIdle(t)
    \/ \E t \in Threads : ExecExit(t)
    \/ \E t \in Threads : AfterTask(t)
    \/ \E t \in Threads : AfterIdle(t)
    \/ \E t \in Threads : BodyScheduleSelf(t)
    \/ \E t \in Threads : BodyYield(t)
    \/ \E t \in Threads : BodyReturn(t)
    \/ \E t \in Threads : IdleStep(t)
    \/ \E t \in Threads : TrampolineYield(t)
    \/ \E s \in {Main, Ext} : StopBegin(s)
    \/ StopResume
    \/ StopJoin

----------------------------------------------------------------------------
(* IOManager: scheduleLock, tickle and the epoll_wait of idle()              *)

WakeInit ==
    /\ tickle_ready = FALSE
    /\ need_tickle = FALSE
    /\ in_wait = {}

\* IOManager::tickle: nothing without an idle thread, otherwise write(m_tickleFds, 1)
Tickle(ready) == IF m_idleThreadCount > 0 THEN TRUE ELSE ready

\* scheduleLock(cb, thr), under m_mutex: need_tickle = m_tasks.empty(); push_back
WakeScheduleCb(c, thr) ==
    /\ ~aborted
    /\ ~need_tickle
    /\ FreeId(c)
    /\ ScheduleLock([fiber |-> NoFiber, cb |-> c, thread |-> thr])
    /\ need_tickle' = (m_tasks = <<>>)
    /\ UNCHANGED <<tickle_ready, in_wait>>
    /\ UNCHANGED <<fiberRest, aborted, beyondRun>>

\* scheduleLock, after m_mutex is released: if(need_tickle) tickle()
WakeTickle ==
    /\ ~aborted
    /\ need_tickle
    /\ need_tickle' = FALSE
    /\ tickle_ready' = Tickle(tickle_ready)
    /\ UNCHANGED in_wait
    /\ UNCHANGED <<fiberVars, beyondRun>>

\* run() steps 1-2 of an IOManager: tickle() when a task pinned to another thread was
\* passed over, or when `it`, compared with end() after erase(it) has invalidated it, is
\* found different
WakeFetch(t) ==
    /\ FetchTask(t)
    /\ LET i == FirstEligible(m_tasks, t)
           last == IF i # 0 THEN i - 1 ELSE Len(m_tasks)
           passed == \E j \in 1 .. last : ~Eligible(m_tasks[j], t)
       IN  \E after_erase \in IF i # 0 THEN BOOLEAN ELSE {FALSE} :
               tickle_ready' = IF passed \/ after_erase THEN Tickle(tickle_ready)
                               ELSE tickle_ready
    /\ UNCHANGED <<need_tickle, in_wait>>
    /\ UNCHANGED beyondRun

\* IOManager::idle: stopping() is false, epoll_wait is called
IdleEpollWait(t) ==
    /\ ~aborted
    /\ w_pc[t] = "in_fiber"
    /\ t_fiber[t] = IdleF(t)
    /\ t \notin in_wait
    /\ ~Stopping
    /\ in_wait' = in_wait \cup {t}
    /\ UNCHANGED <<tickle_ready, need_tickle>>
    /\ UNCHANGED <<fiberVars, beyondRun>>

\* IOManager::idle: epoll_wait returns, with the event of m_tickleFds (which is read
\* empty) or when next_timeout has passed; then Fiber::GetThis()->yield()
IdleEpollReturn(t, timeout) ==
    /\ ~aborted
    /\ t \in in_wait
    /\ tickle_ready \/ timeout
    /\ tickle_ready' = FALSE
    /\ in_wait' = in_wait \ {t}
    /\ Yield(t, IdleF(t))
    /\ w_pc' = [w_pc EXCEPT ![t] = "after_idle"]
    /\ UNCHANGED need_tickle
    /\ UNCHANGED <<f_mutex, f_iscb, f_cb, f_left, t_thread_fiber, t_scheduler_fiber,
                   t_scheduler, m_tasks, m_useCaller, m_stopping, m_started,
                   m_activeThreadCount, m_idleThreadCount, w_task, w_fiber, stop_pc,
                   stop_thread, pre_stop>>
    /\ UNCHANGED beyondRun

\* an IOManager's workers, and a thread that calls scheduleLock
WakeNext ==
    \/ Start
    \/ \E t \in Threads : WorkerStart(t)
    \/ \E c \in Cbs, thr \in Targets : WakeScheduleCb(c, thr)
    \/ WakeTickle
    \/ \E t \in Threads : WakeFetch(t)
    \/ \E t \in Threads : ExecResume(t)
    \/ \E t \in Threads : ExecIdle(t)
    \/ \E t \in Threads : AfterTask(t)
    \/ \E t \in Threads : AfterIdle(t)
    \/ \E t \in Threads : BodyYield(t)
    \/ \E t \in Threads : BodyReturn(t)
    \/ \E t \in Threads : IdleEpollWait(t)
    \/ \E t \in Threads, timeout \in BOOLEAN : IdleEpollReturn(t, timeout)

----------------------------------------------------------------------------
(* IOManager: FdContext arming and the reactor (IOManager::idle)            *)

(* Bounds *)
NumFds == 1             \* file descriptors in use
MaxAdds == 2            \* addEvent calls that succeed in one run

Fds == 0 .. NumFds - 1
Events == {"READ", "WRITE"}             \* IOManager::Event without NONE
Reactor == 0                            \* the thread running idle()
\* threads calling addEvent / delEvent / cancelEvent / cancelAll: of the ThreadsArg
\* threads of the IOManager, all but the one in idle()
Callers == 1 .. ThreadsArg - 1

\* an EventContext after resetEventContext
EmptyCtx == [scheduler |-> FALSE, fiber |-> NoFiber, cb |-> 0]

\* FdContext::resetEventContext
KeepEventContext(ctx) == ctx
ResetEventContext(ctx) == EmptyCtx

\* the task triggerEvent hands to scheduleLock: the callable if there is one, else the fiber
TaskOfFiber(ctx) == [fiber |-> ctx.fiber, cb |-> 0, thread |-> AnyThread]
TaskOf(ctx) == IF ctx.cb # 0
               THEN [fiber |-> NoFiber, cb |-> ctx.cb, thread |-> AnyThread]
               ELSE [fiber |-> ctx.fiber, cb |-> 0, thread |-> AnyThread]

\* a triggerEvent that would invoke the party in place: nothing reaches the task queue
TriggerEventInline(st, e) ==
    IF ~st.ok THEN st
    ELSE IF e \notin st.events THEN [st EXCEPT !.ok = FALSE]
    ELSE [st EXCEPT !.events = @ \ {e},
                    !.ctx = [@ EXCEPT ![e] = ResetEventContext(@)]]
\* FdContext::triggerEvent on a local copy st of (events, slots, task queue) of one fd:
\* assert(events & event) aborts; otherwise the bit is cleared, the slot is scheduled
\* and reset
TriggerEvent(st, e) ==
    IF ~st.ok THEN st
    ELSE IF e \notin st.events THEN [st EXCEPT !.ok = FALSE]
    ELSE [st EXCEPT !.events = @ \ {e},
                    !.tasks = Append(@, TaskOf(st.ctx[e])),
                    !.ctx = [@ EXCEPT ![e] = ResetEventContext(@)]]

\* --m_pendingEventCount (an atomic size_t: a negative value here is a wrapped one)
KeepPending(n) == n
DecPending(n) == n - 1

\* if (real_events & e) { triggerEvent(e); --m_pendingEventCount; }
TriggerAndCount(st, e) ==
    LET s2 == TriggerEvent(st, e)
    IN  IF s2.ok THEN [s2 EXCEPT !.pending = DecPending(@)] ELSE s2

\* the local view of fd that the trigger sequences start from
FdView(fd) == [events |-> events[fd], ctx |-> event_ctx[fd], tasks |-> m_tasks,
               pending |-> m_pendingEventCount, ok |-> TRUE]

\* a trigger sequence is written back; a failed assert leaves the process aborted with
\* FdContext::mutex still held by thread h
StoreView(fd, st, h) ==
    /\ events' = [events EXCEPT ![fd] = st.events]
    /\ event_ctx' = [event_ctx EXCEPT ![fd] = st.ctx]
    /\ m_tasks' = st.tasks
    /\ m_pendingEventCount' = st.pending
    /\ aborted' = ~st.ok
    /\ fd_mutex' = [fd_mutex EXCEPT ![fd] = IF st.ok THEN NoThread ELSE h]

\* the op the code passes to epoll_ctl: ADD when no event is armed yet, DEL when none
\* is left, MOD otherwise
EpollOp(armed, new) == IF new = {} THEN "DEL" ELSE IF armed = {} THEN "ADD" ELSE "MOD"

\* epoll_ctl succeeds when ADD meets an fd that is not in the interest list (else
\* EEXIST) and MOD / DEL one that is (else ENOENT)
EpollCtlOk(fd, epop) == (epop = "ADD") <=> (k_interest[fd] = {})

\* a successful epoll_ctl(m_epfd, ADD/MOD/DEL, fd) leaving `new` as the interest set;
\* readiness of events no longer of interest is dropped, and a deleted fd reports nothing
EpollCtl(fd, new) ==
    /\ k_interest' = [k_interest EXCEPT ![fd] = new]
    /\ k_ready' = [k_ready EXCEPT ![fd] = IF new = {} THEN {} ELSE @ \cap (new \cup {"ERR"})]

NoOp == [pc |-> "idle", fd |-> 0, event |-> "READ", cb |-> FALSE]

\* a bool return value as the integer it converts to; `return -1` in a function that
\* returns bool gives true
False == 0
True == 1
ToBool(n) == IF n # 0 THEN True ELSE False

\* what an operation of the IOManager returned: the function and the value
Returned(fn, val) == [fn |-> fn, val |-> val]
NoRt == Returned("none", 0)

\* no addEvent is on record
NoAdd == [valid |-> FALSE, c |-> 0, fd |-> 0, event |-> "READ", events |-> {},
          ctx |-> [e \in Events |-> EmptyCtx], pending |-> 0]

\* what caller c's addEvent(fd, e) finds when it takes FdContext::mutex
FoundBy(c, fd, e) == [valid |-> TRUE, c |-> c, fd |-> fd, event |-> e, events |-> events[fd],
                      ctx |-> event_ctx[fd], pending |-> m_pendingEventCount]

\* the operation caller c begins on (fd, e) comes right after its own addEvent(fd, e):
\* no other operation of the IOManager has begun since
FollowsAdd(c, fd, e) ==
    last_add.valid /\ last_add.c = c /\ last_add.fd = fd /\ last_add.event = e

\* after the IOManager constructor: contextResize(32) made an empty FdContext per fd
IOInit ==
    /\ events = [fd \in Fds |-> {}]
    /\ event_ctx = [fd \in Fds |-> [e \in Events |-> EmptyCtx]]
    /\ fd_mutex = [fd \in Fds |-> NoThread]
    /\ m_pendingEventCount = 0
    /\ k_interest = [fd \in Fds |-> {}]
    /\ k_ready = [fd \in Fds |-> {}]
    /\ idle_pc = "wait"
    /\ ep_events = [fd \in Fds |-> {}]
    /\ op = [c \in Callers |-> NoOp]
    /\ rt = [c \in Callers |-> NoRt]
    /\ last_add = NoAdd
    /\ io_adds = 0

----------------------------------------------------------------------------
(* IOManager::addEvent / delEvent / cancelEvent / cancelAll, called by thread c. *)
(* Each runs under FdContext::mutex and is modelled in two steps: up to the      *)
(* change of m_pendingEventCount or of the event bit, and the rest.              *)

\* addEvent: if(fd_ctx->events & event)
AlreadyArmedNever(fd, e) == FALSE
AlreadyArmed(fd, e) == e \in events[fd]

\* addEvent up to ++m_pendingEventCount: return -1 when the event is already armed or
\* epoll_ctl fails
AddEvent(c, fd, e, useCb) ==
    /\ ~aborted
    /\ op[c].pc = "idle"
    /\ io_adds < MaxAdds
    /\ fd_mutex[fd] = NoThread
    /\ IF AlreadyArmed(fd, e) \/ ~EpollCtlOk(fd, EpollOp(events[fd], events[fd] \cup {e}))
       THEN /\ rt' = [rt EXCEPT ![c] = Returned("addEvent", -1)]
            /\ last_add' = NoAdd
            /\ UNCHANGED <<fd_mutex, m_pendingEventCount, k_interest, k_ready, op>>
       ELSE /\ EpollCtl(fd, events[fd] \cup {e})
            /\ m_pendingEventCount' = m_pendingEventCount + 1
            /\ fd_mutex' = [fd_mutex EXCEPT ![fd] = c]
            /\ op' = [op EXCEPT ![c] = [pc |-> "add", fd |-> fd, event |-> e, cb |-> useCb]]
            /\ last_add' = FoundBy(c, fd, e)
            /\ UNCHANGED rt
    /\ UNCHANGED <<events, event_ctx, idle_pc, ep_events, io_adds, m_tasks, aborted>>
    /\ UNCHANGED notIOVars

\* addEvent after ++m_pendingEventCount: set the bit, assert the slot is empty, fill it
\* with the scheduler and the callable or, without a callable, the current fiber.
\* The n-th successful addEvent stores callable n, or the fiber of caller n.
AddEventFinish(c) ==
    /\ ~aborted
    /\ op[c].pc = "add"
    /\ last_add' = IF last_add.c = c THEN last_add ELSE NoAdd
    /\ events' = [events EXCEPT ![op[c].fd] = @ \cup {op[c].event}]
    /\ IF event_ctx[op[c].fd][op[c].event] # EmptyCtx
       THEN /\ aborted' = TRUE
            /\ UNCHANGED <<event_ctx, fd_mutex, op, rt, io_adds>>
       ELSE /\ event_ctx' = [event_ctx EXCEPT ![op[c].fd][op[c].event] =
                                [scheduler |-> TRUE,
                                 fiber |-> IF op[c].cb THEN NoFiber ELSE io_adds + 1,
                                 cb |-> IF op[c].cb THEN io_adds + 1 ELSE 0]]
            /\ io_adds' = io_adds + 1
            /\ fd_mutex' = [fd_mutex EXCEPT ![op[c].fd] = NoThread]
            /\ op' = [op EXCEPT ![c] = NoOp]
            /\ rt' = [rt EXCEPT ![c] = Returned("addEvent", 0)]
            /\ UNCHANGED aborted
    /\ UNCHANGED <<m_pendingEventCount, k_interest, k_ready, idle_pc, ep_events, m_tasks>>
    /\ UNCHANGED notIOVars

\* delEvent up to --m_pendingEventCount: return when the event is not armed or
\* epoll_ctl fails
DelEvent(c, fd, e) ==
    /\ ~aborted
    /\ op[c].pc = "idle"
    /\ fd_mutex[fd] = NoThread
    /\ last_add' = IF FollowsAdd(c, fd, e) THEN last_add ELSE NoAdd
    /\ IF e \notin events[fd] \/ ~EpollCtlOk(fd, EpollOp(events[fd], events[fd] \ {e}))
       THEN /\ rt' = [rt EXCEPT ![c] = Returned("delEvent", IF e \notin events[fd]
                                                               THEN False ELSE ToBool(-1))]
            /\ UNCHANGED <<fd_mutex, m_pendingEventCount, k_interest, k_ready, op>>
       ELSE /\ EpollCtl(fd, events[fd] \ {e})
            /\ m_pendingEventCount' = DecPending(m_pendingEventCount)
            /\ fd_mutex' = [fd_mutex EXCEPT ![fd] = c]
            /\ op' = [op EXCEPT ![c] = [pc |-> "del", fd |-> fd, event |-> e, cb |-> FALSE]]
            /\ UNCHANGED rt
    /\ UNCHANGED <<events, event_ctx, idle_pc, ep_events, io_adds, m_tasks, aborted>>
    /\ UNCHANGED notIOVars

\* delEvent after --m_pendingEventCount: events = new_events; resetEventContext
DelEventFinish(c) ==
    /\ ~aborted
    /\ op[c].pc = "del"
    /\ last_add' = IF FollowsAdd(c, op[c].fd, op[c].event)
                   THEN [last_add EXCEPT !.valid = FALSE] ELSE NoAdd
    /\ events' = [events EXCEPT ![op[c].fd] = @ \ {op[c].event}]
    /\ event_ctx' = [event_ctx EXCEPT ![op[c].fd][op[c].event] = ResetEventContext(@)]
    /\ fd_mutex' = [fd_mutex EXCEPT ![op[c].fd] = NoThread]
    /\ op' = [op EXCEPT ![c] = NoOp]
    /\ rt' = [rt EXCEPT ![c] = Returned("delEvent", True)]
    /\ UNCHANGED <<m_pendingEventCount, k_interest, k_ready, idle_pc, ep_events, io_adds,
                   m_tasks, aborted>>
    /\ UNCHANGED notIOVars

\* cancelEvent up to the first statement of triggerEvent: --m_pendingEventCount, then
\* triggerEvent clears the bit (its assert holds: the bit was just tested)
CancelEvent(c, fd, e) ==
    /\ ~aborted
    /\ op[c].pc = "idle"
    /\ fd_mutex[fd] = NoThread
    /\ last_add' = NoAdd
    /\ IF e \notin events[fd] \/ ~EpollCtlOk(fd, EpollOp(events[fd], events[fd] \ {e}))
       THEN /\ rt' = [rt EXCEPT ![c] = Returned("cancelEvent", IF e \notin events[fd]
                                                                  THEN False ELSE ToBool(-1))]
            /\ UNCHANGED <<events, fd_mutex, m_pendingEventCount, k_interest, k_ready, op>>
       ELSE /\ EpollCtl(fd, events[fd] \ {e})
            /\ m_pendingEventCount' = DecPending(m_pendingEventCount)
            /\ events' = [events EXCEPT ![fd] = @ \ {e}]
            /\ fd_mutex' = [fd_mutex EXCEPT ![fd] = c]
            /\ op' = [op EXCEPT ![c] = [pc |-> "cancel", fd |-> fd, event |-> e, cb |-> FALSE]]
            /\ UNCHANGED rt
    /\ UNCHANGED <<event_ctx, idle_pc, ep_events, io_adds, m_tasks, aborted>>
    /\ UNCHANGED notIOVars

\* cancelEvent, the rest of triggerEvent: scheduleLock of the slot, resetEventContext
CancelEventFinish(c) ==
    /\ ~aborted
    /\ op[c].pc = "cancel"
    /\ last_add' = NoAdd
    /\ ScheduleLock(TaskOf(event_ctx[op[c].fd][op[c].event]))
    /\ event_ctx' = [event_ctx EXCEPT ![op[c].fd][op[c].event] = ResetEventContext(@)]
    /\ fd_mutex' = [fd_mutex EXCEPT ![op[c].fd] = NoThread]
    /\ op' = [op EXCEPT ![c] = NoOp]
    /\ rt' = [rt EXCEPT ![c] = Returned("cancelEvent", True)]
    /\ UNCHANGED <<events, m_pendingEventCount, k_interest, k_ready, idle_pc, ep_events,
                   io_adds, aborted>>
    /\ UNCHANGED notIOVars

\* cancelAll up to the triggers: return when nothing is armed or epoll_ctl(DEL) fails
CancelAll(c, fd) ==
    /\ ~aborted
    /\ op[c].pc = "idle"
    /\ fd_mutex[fd] = NoThread
    /\ last_add' = NoAdd
    /\ IF events[fd] = {} \/ ~EpollCtlOk(fd, "DEL")
       THEN /\ rt' = [rt EXCEPT ![c] = Returned("cancelAll", IF events[fd] = {}
                                                                THEN False ELSE ToBool(-1))]
            /\ UNCHANGED <<fd_mutex, k_interest, k_ready, op>>
       ELSE /\ EpollCtl(fd, {})
            /\ fd_mutex' = [fd_mutex EXCEPT ![fd] = c]
            /\ op' = [op EXCEPT ![c] = [pc |-> "cancelAll", fd |-> fd, event |-> "READ",
                                        cb |-> FALSE]]
            /\ UNCHANGED rt
    /\ UNCHANGED <<events, event_ctx, m_pendingEventCount, idle_pc, ep_events, io_adds,
                   m_tasks, aborted>>
    /\ UNCHANGED notIOVars

\* cancelAll, the triggers: READ if armed, then WRITE if armed, each followed by
\* --m_pendingEventCount; assert(events == 0)
CancelAllFinish(c) ==
    /\ ~aborted
    /\ op[c].pc = "cancelAll"
    /\ last_add' = NoAdd
    /\ LET fd == op[c].fd
           s0 == FdView(fd)
           s1 == IF "READ" \in s0.events THEN TriggerAndCount(s0, "READ") ELSE s0
           s2 == IF "WRITE" \in s1.events THEN TriggerAndCount(s1, "WRITE") ELSE s1
       IN  StoreView(fd, [s2 EXCEPT !.ok = s2.ok /\ s2.events = {}], c)
    /\ op' = [op EXCEPT ![c] = NoOp]
    /\ rt' = [rt EXCEPT ![c] = Returned("cancelAll", True)]
    /\ UNCHANGED <<k_interest, k_ready, idle_pc, ep_events, io_adds>>
    /\ UNCHANGED notIOVars

----------------------------------------------------------------------------
(* The kernel, and IOManager::idle on the worker thread *)

\* the kernel notes readiness E on a registered fd: events of interest, and EPOLLERR /
\* EPOLLHUP, which epoll reports whether asked for or not
Readiness(fd, E) ==
    /\ ~aborted
    /\ k_interest[fd] # {}
    /\ E # {}
    /\ E \subseteq (k_interest[fd] \cup {"ERR"})
    /\ ~(E \subseteq k_ready[fd])
    /\ k_ready' = [k_ready EXCEPT ![fd] = @ \cup E]
    /\ UNCHANGED <<events, event_ctx, fd_mutex, m_pendingEventCount, k_interest, idle_pc,
                   ep_events, op, rt, last_add, io_adds, m_tasks, aborted>>
    /\ UNCHANGED notIOVars

\* close_f(fd) by code that does not go through the IOManager first, as close() does
\* on a thread with the hook disabled: the kernel takes the file off the epoll interest
\* list, and epoll_ctl(MOD / DEL) on that fd number fails from then on
KernelClose(fd) ==
    /\ ~aborted
    /\ k_interest[fd] # {}
    /\ k_interest' = [k_interest EXCEPT ![fd] = {}]
    /\ k_ready' = [k_ready EXCEPT ![fd] = {}]
    /\ UNCHANGED <<events, event_ctx, fd_mutex, m_pendingEventCount, idle_pc, ep_events, op,
                   rt, last_add, io_adds, m_tasks, aborted>>
    /\ UNCHANGED notIOVars

\* idle(): epoll_wait returns what is ready (nothing, on a timeout); edge-triggered, so
\* what is returned is reported once.  No timer is set here: listExpiredCb finds none.
IdleWait ==
    /\ ~aborted
    /\ idle_pc = "wait"
    /\ ep_events' = k_ready
    /\ k_ready' = [fd \in Fds |-> {}]
    /\ idle_pc' = "events"
    /\ UNCHANGED <<events, event_ctx, fd_mutex, m_pendingEventCount, k_interest, op, rt, last_add, io_adds,
                   m_tasks, aborted>>
    /\ UNCHANGED notIOVars

\* idle(): EPOLLERR / EPOLLHUP become the armed events; real_events are the EPOLLIN and
\* EPOLLOUT bits of the returned event as they are
RealEvents(ev, armed) == (IF "ERR" \in ev THEN ev \cup armed ELSE ev) \cap Events

\* idle(): one returned event, under FdContext::mutex: skipped when no armed event is in
\* real_events or epoll_ctl fails; otherwise epoll keeps the armed events not in
\* real_events and READ, then WRITE, of real_events is triggered and counted
IdleEvent(fd) ==
    /\ ~aborted
    /\ idle_pc = "events"
    /\ ep_events[fd] # {}
    /\ fd_mutex[fd] = NoThread
    /\ last_add' = NoAdd
    /\ ep_events' = [ep_events EXCEPT ![fd] = {}]
    /\ LET real == RealEvents(ep_events[fd], events[fd])
           s0 == FdView(fd)
           s1 == IF "READ" \in real THEN TriggerAndCount(s0, "READ") ELSE s0
           s2 == IF "WRITE" \in real THEN TriggerAndCount(s1, "WRITE") ELSE s1
       IN  IF events[fd] \cap real = {}
              \/ ~EpollCtlOk(fd, EpollOp(events[fd], events[fd] \ real))
           THEN UNCHANGED <<events, event_ctx, fd_mutex, m_pendingEventCount, k_interest,
                            k_ready, m_tasks, aborted>>
           ELSE /\ EpollCtl(fd, events[fd] \ real)
                /\ StoreView(fd, s2, Reactor)
    /\ UNCHANGED <<idle_pc, op, rt, io_adds>>
    /\ UNCHANGED notIOVars

\* idle(): every returned event is processed; Fiber::GetThis()->yield()
IdleYield ==
    /\ ~aborted
    /\ idle_pc = "events"
    /\ \A fd \in Fds : ep_events[fd] = {}
    /\ idle_pc' = "yielded"
    /\ UNCHANGED <<events, event_ctx, fd_mutex, m_pendingEventCount, k_interest, k_ready,
                   ep_events, op, rt, last_add, io_adds, m_tasks, aborted>>
    /\ UNCHANGED notIOVars

\* Scheduler::run on the worker thread, back from the idle fiber: it takes the queued
\* tasks one by one and runs them
RunTask ==
    /\ ~aborted
    /\ idle_pc = "yielded"
    /\ m_tasks # <<>>
    /\ m_tasks' = Tail(m_tasks)
    /\ UNCHANGED <<events, event_ctx, fd_mutex, m_pendingEventCount, k_interest, k_ready,
                   idle_pc, ep_events, op, rt, last_add, io_adds, aborted>>
    /\ UNCHANGED notIOVars

\* Scheduler::run finds no task and resumes the idle fiber, which loops to epoll_wait
IdleResume ==
    /\ ~aborted
    /\ idle_pc = "yielded"
    /\ m_tasks = <<>>
    /\ idle_pc' = "wait"
    /\ UNCHANGED <<events, event_ctx, fd_mutex, m_pendingEventCount, k_interest, k_ready,
                   ep_events, op, rt, last_add, io_adds, m_tasks, aborted>>
    /\ UNCHANGED notIOVars

\* the rest of the operation caller c is inside
CallerProgress(c) ==
    \/ AddEventFinish(c)
    \/ DelEventFinish(c)
    \/ CancelEventFinish(c)
    \/ CancelAllFinish(c)

\* the steps of the worker thread: idle() and the tasks run() takes
WorkerProgress ==
    \/ IdleWait
    \/ \E fd \in Fds : IdleEvent(fd)
    \/ IdleYield
    \/ RunTask
    \/ IdleResume

IONext ==
    \/ \E c \in Callers, fd \in Fds, e \in Events, useCb \in BOOLEAN :
          AddEvent(c, fd, e, useCb)
    \/ \E c \in Callers, fd \in Fds, e \in Events : DelEvent(c, fd, e)
    \/ \E c \in Callers, fd \in Fds, e \in Events : CancelEvent(c, fd, e)
    \/ \E c \in Callers, fd \in Fds : CancelAll(c, fd)
    \/ \E fd \in Fds, E \in SUBSET (Events \cup {"ERR"}) : Readiness(fd, E)
    \/ \E c \in Callers : CallerProgress(c)
    \/ WorkerProgress

----------------------------------------------------------------------------
(* Timer and TimerManager; the drain of expired timers in IOManager::idle    *)

(* Bounds *)
NumTimers == 2          \* timers created in one run
MaxMs == 1              \* largest period: periods are 0 .. MaxMs
MaxTicks == 2           \* clock readings the clock advances in one run
Res == 2                \* clock readings told apart in one millisecond (system_clock counts
                        \* nanoseconds)
MaxCbs == 2             \* copies of one callable kept in cbs (more are not told apart)

MaxFrontCalls == 2      \* calls of onTimerInsertedAtFront counted between two getNextTimer

(* Program constants *)
RolloverMs == 3600000   \* detectClockRollover: 60 * 60 * 1000
MAX_TIMEOUT == 5000     \* idle(): the longest epoll_wait, in milliseconds
\* getNextTimer: ~0ull, no timer in the set; written as the largest integer at hand, as
\* only its order against 0 and MAX_TIMEOUT is used
NoTimerLeft == 2147483647
NoWait == -1            \* idle() is not between getNextTimer and the return of epoll_wait

Timers == 1 .. NumTimers
Periods == 0 .. MaxMs
NoTimer == 0

\* no refresh is on record
NoRefresh == [valid |-> FALSE, t |-> NoTimer, clock |-> 0, active |-> FALSE, before |-> {},
              after |-> {}, next |-> 0]

\* system_clock::now() at construction, and after a jump back that is detected
\* std::chrono::milliseconds(n) added to a time_point
Ms(n) == n * Res

\* duration_cast<milliseconds>(d).count() of a duration that is not negative: truncation
CastMs(d) == d \div Res

Epoch == Ms(2 * RolloverMs)
\* a jump back that detectClockRollover detects whatever m_previouseTime is
JumpMs == RolloverMs + MaxTicks + 1
ClockBase == IF clock < Epoch THEN Epoch - Ms(JumpMs) ELSE Epoch

\* Timer::Comparator::operator(): lhs->m_next < rhs->m_next, and nothing else
Comparator(next, lhs, rhs) == next[lhs] < next[rhs]

\* equivalence of keys in std::set: neither is less than the other
Equivalent(next, a, b) == ~Comparator(next, a, b) /\ ~Comparator(next, b, a)

\* m_timers.find(t): the members equivalent to t (at most one)
SetFind(S, next, t) == {u \in S : Equivalent(next, u, t)}

\* m_timers.insert(t): nothing is inserted when an equivalent member exists
SetInsert(S, next, t) == IF SetFind(S, next, t) = {} THEN S \cup {t} ELSE S

\* *m_timers.begin(): the member no other member is less than
SetBegin(S, next) == CHOOSE u \in S : \A v \in S : ~Comparator(next, v, u)

\* m_timers.erase(m_timers.find(t)) when find succeeds
SetEraseFound(S, next, t) == S \ SetFind(S, next, t)

Count(seq, t) == Cardinality({i \in 1 .. Len(seq) : seq[i] = t})

\* cbs.push_back(temp->m_cb); copies beyond MaxCbs of one callable are not kept apart
PushBack(seq, t) == IF Count(seq, t) < MaxCbs THEN Append(seq, t) ELSE seq

\* TimerManager::m_mutex is held by listExpiredCb from its first to its last statement
TimerLockFree == idle_pc \notin {"drain", "reinsert"}

\* after the TimerManager constructor: m_previouseTime = now, no timer
TimerInit ==
    /\ clock = Epoch
    /\ m_previouseTime = Epoch
    /\ m_tickled = FALSE
    /\ created = [t \in Timers |-> FALSE]
    /\ m_ms = [t \in Timers |-> 0]
    /\ m_next = [t \in Timers |-> 0]
    /\ m_recurring = [t \in Timers |-> FALSE]
    /\ m_cb = [t \in Timers |-> FALSE]
    /\ m_timers = {}
    /\ now = 0
    /\ rollover = FALSE
    /\ temp = NoTimer
    /\ cbs = <<>>
    /\ cancelled = [t \in Timers |-> FALSE]
    /\ refused = {}
    /\ fired = {}
    /\ last_refresh = NoRefresh
    /\ d_timers = {}
    /\ d_next = [t \in Timers |-> 0]
    /\ next_timeout = NoWait
    /\ at_front = {}
    /\ front_calls = 0

----------------------------------------------------------------------------
(* The clock *)

\* the clock moves on to its next reading
ClockTick ==
    /\ ~aborted
    /\ clock - ClockBase < MaxTicks
    /\ clock' = clock + 1
    /\ UNCHANGED <<m_previouseTime, m_tickled, created, m_ms, m_next, m_recurring, m_cb,
                   m_timers, now, rollover, temp, cbs, cancelled, refused, d_timers, d_next,
               fired, last_refresh,
                   next_timeout, at_front, front_calls>>
    /\ UNCHANGED <<idle_pc, m_tasks>>
    /\ UNCHANGED notTimerVars

\* the system clock is set back by more than an hour
ClockJumpBack ==
    /\ ~aborted
    /\ clock >= Epoch
    /\ clock' = clock - Ms(JumpMs)
    /\ UNCHANGED <<m_previouseTime, m_tickled, created, m_ms, m_next, m_recurring, m_cb,
                   m_timers, now, rollover, temp, cbs, cancelled, refused, d_timers, d_next,
               fired, last_refresh,
                   next_timeout, at_front, front_calls>>
    /\ UNCHANGED <<idle_pc, m_tasks>>
    /\ UNCHANGED notTimerVars

----------------------------------------------------------------------------
(* TimerManager::addTimer, Timer::cancel, Timer::refresh, called by user threads *)

\* addTimer(ms, cb, recurring): Timer constructor (m_next = now + ms), then
\* addTimer(timer) under m_mutex: insert, and m_tickled is set when the iterator insert
\* returned is begin() and m_tickled was clear (onTimerInsertedAtFront only tickles)
NewTimer(t, ms, recurring) ==
    /\ created' = [created EXCEPT ![t] = TRUE]
    /\ m_ms' = [m_ms EXCEPT ![t] = ms]
    /\ m_recurring' = [m_recurring EXCEPT ![t] = recurring]
    /\ m_cb' = [m_cb EXCEPT ![t] = TRUE]
    /\ m_next' = [m_next EXCEPT ![t] = clock + Ms(ms)]
    /\ m_timers' = SetInsert(m_timers, m_next', t)
    /\ m_tickled' = (m_tickled \/ Equivalent(m_next', SetBegin(m_timers', m_next'), t))

\* addTimer(timer): at_front = (it == m_timers.begin()) && !m_tickled, for the insert of t
InsertedAtFront(t) == ~m_tickled /\ Equivalent(m_next', SetBegin(m_timers', m_next'), t)

\* one more call of onTimerInsertedAtFront since the last getNextTimer
CountFrontCall(n) == IF n < MaxFrontCalls THEN n + 1 ELSE n

\* addTimer(ms, cb, recurring) from user code, for a timer not yet constructed, from
\* the constructor to the return, onTimerInsertedAtFront included
AddTimer(t, ms, recurring) ==
    /\ ~aborted
    /\ TimerLockFree
    /\ ~created[t]
    /\ NewTimer(t, ms, recurring)
    /\ front_calls' = IF InsertedAtFront(t) THEN CountFrontCall(front_calls) ELSE front_calls
    /\ last_refresh' = NoRefresh
    /\ UNCHANGED <<clock, m_previouseTime, now, rollover, temp, cbs, cancelled, refused,
                   d_timers, d_next, fired, next_timeout, at_front>>
    /\ UNCHANGED <<idle_pc, m_tasks>>
    /\ UNCHANGED notTimerVars

\* the same call step by step, with other threads in between: up to the release of
\* m_mutex
AddTimerInsert(t, ms, recurring) ==
    /\ ~aborted
    /\ TimerLockFree
    /\ ~created[t]
    /\ NewTimer(t, ms, recurring)
    /\ at_front' = IF InsertedAtFront(t) THEN at_front \cup {t} ELSE at_front
    /\ last_refresh' = NoRefresh
    /\ UNCHANGED <<clock, m_previouseTime, now, rollover, temp, cbs, cancelled, refused,
                   d_timers, d_next, fired, next_timeout, front_calls>>
    /\ UNCHANGED <<idle_pc, m_tasks>>
    /\ UNCHANGED notTimerVars

\* addTimer(timer) after the release of m_mutex: if(at_front) onTimerInsertedAtFront(),
\* which tickles
OnTimerInsertedAtFront(t) ==
    /\ ~aborted
    /\ t \in at_front
    /\ at_front' = at_front \ {t}
    /\ front_calls' = CountFrontCall(front_calls)
    /\ UNCHANGED <<clock, m_previouseTime, m_tickled, created, m_ms, m_next, m_recurring, m_cb,
                   m_timers, now, rollover, temp, cbs, cancelled, refused, d_timers, d_next,
                   fired, last_refresh, next_timeout>>
    /\ UNCHANGED <<idle_pc, m_tasks>>
    /\ UNCHANGED notTimerVars

\* what Timer::cancel returns: false when m_cb is null, true otherwise
TimerCancelReturnTrue(t) == True
TimerCancelReturn(t) == IF ~m_cb[t] THEN False ELSE True

\* Timer::cancel under m_mutex: false when m_cb is null; otherwise m_cb = nullptr and
\* the member that find(this) returns is erased
TimerCancel(t) ==
    IF TimerCancelReturn(t) = False
    THEN /\ refused' = refused \cup {t}
         /\ UNCHANGED <<m_cb, m_timers, cancelled>>
    ELSE /\ m_cb' = [m_cb EXCEPT ![t] = FALSE]
         /\ m_timers' = SetEraseFound(m_timers, m_next, t)
         /\ cancelled' = [cancelled EXCEPT ![t] = TRUE]
         /\ UNCHANGED refused

\* Timer::cancel from user code
Cancel(t) ==
    /\ ~aborted
    /\ TimerLockFree
    /\ created[t]
    /\ TimerCancel(t)
    /\ last_refresh' = NoRefresh
    /\ UNCHANGED <<clock, m_previouseTime, m_tickled, created, m_ms, m_next, m_recurring,
                   now, rollover, temp, cbs, d_timers, d_next, fired, next_timeout, at_front,
                   front_calls>>
    /\ UNCHANGED <<idle_pc, m_tasks>>
    /\ UNCHANGED notTimerVars

\* the refresh() of timer t that goes through in this step: the clock it read, whether t
\* was a member of the set, the set before and after, and the m_next it set
RefreshedNow(t) == [valid |-> TRUE, t |-> t, clock |-> clock, active |-> t \in m_timers,
                    before |-> m_timers, after |-> m_timers', next |-> m_next'[t]]

\* this refresh() of timer t comes right after another refresh() of t that went through,
\* at the same reading of the clock
FollowsRefresh(t) == last_refresh.valid /\ last_refresh.t = t /\ last_refresh.clock = clock

\* Timer::refresh under m_mutex: false when m_cb is null or find(this) finds nothing;
\* otherwise the member found is erased, m_next = now + m_ms, and this is inserted
Refresh(t) ==
    /\ ~aborted
    /\ TimerLockFree
    /\ created[t]
    /\ IF ~m_cb[t] \/ SetFind(m_timers, m_next, t) = {}
       THEN /\ last_refresh' = NoRefresh
            /\ UNCHANGED <<m_next, m_timers>>
       ELSE /\ m_next' = [m_next EXCEPT ![t] = clock + Ms(m_ms[t])]
            /\ m_timers' = SetInsert(SetEraseFound(m_timers, m_next, t), m_next', t)
            /\ last_refresh' = IF FollowsRefresh(t) THEN NoRefresh ELSE RefreshedNow(t)
    /\ UNCHANGED <<clock, m_previouseTime, m_tickled, created, m_ms, m_recurring, m_cb,
                   now, rollover, temp, cbs, cancelled, refused, d_timers, d_next, fired,
                   next_timeout, at_front, front_calls>>
    /\ UNCHANGED <<idle_pc, m_tasks>>
    /\ UNCHANGED notTimerVars

----------------------------------------------------------------------------
(* IOManager::idle on the worker thread: getNextTimer and epoll_wait, then            *)
(* listExpiredCb and scheduleLock of what it returned                                 *)

\* the callable of timer t as a ScheduleTask: a copy of m_cb, made by cbs.push_back
TimerCb(t) == MaxAdds + t
TimerTask(t) == [fiber |-> NoFiber, cb |-> TimerCb(t), thread |-> AnyThread]

\* TimerManager::getNextTimer without the write of m_tickled: ~0ull when there is no
\* timer, 0 when now >= the m_next of *m_timers.begin(), else the milliseconds left
GetNextTimer ==
    IF m_timers = {} THEN NoTimerLeft
    ELSE LET time == m_next[SetBegin(m_timers, m_next)]
         IN  IF clock >= time THEN 0 ELSE CastMs(time - clock)

Min(a, b) == IF a < b THEN a ELSE b

\* idle(): next_timeout = min(getNextTimer(), MAX_TIMEOUT), getNextTimer() clears
\* m_tickled, and epoll_wait returns on the timeout (or on the tickle of a timer put at
\* the front) with no IO event
IdleTimeout ==
    /\ ~aborted
    /\ idle_pc = "wait"
    /\ \A fd \in Fds : k_ready[fd] = {}
    /\ next_timeout' = Min(GetNextTimer, MAX_TIMEOUT)
    /\ m_tickled' = FALSE
    /\ front_calls' = 0
    /\ idle_pc' = "expired"
    /\ UNCHANGED <<clock, m_previouseTime, created, m_ms, m_next, m_recurring, m_cb,
                   m_timers, now, rollover, temp, cbs, cancelled, refused, d_timers, d_next, fired, last_refresh, at_front>>
    /\ UNCHANGED m_tasks
    /\ UNCHANGED notTimerVars

\* listExpiredCb: now = system_clock::now(), read before m_mutex is taken
ListExpiredNow ==
    /\ ~aborted
    /\ idle_pc = "expired"
    /\ now' = clock
    /\ next_timeout' = NoWait
    /\ idle_pc' = "locking"
    /\ UNCHANGED <<clock, m_previouseTime, m_tickled, created, m_ms, m_next, m_recurring,
                   m_cb, m_timers, rollover, temp, cbs, cancelled, refused, d_timers, d_next, fired, last_refresh,
                   at_front, front_calls>>
    /\ UNCHANGED m_tasks
    /\ UNCHANGED notTimerVars

\* detectClockRollover: a second read of the clock, compared with m_previouseTime
DetectClockRollover == clock < m_previouseTime - Ms(RolloverMs)

\* listExpiredCb: the write lock is taken and rollover = detectClockRollover(), which
\* sets m_previouseTime; the set as the call finds it is remembered
ListExpiredLock ==
    /\ ~aborted
    /\ idle_pc = "locking"
    /\ rollover' = DetectClockRollover
    /\ m_previouseTime' = clock
    /\ d_timers' = m_timers
    /\ d_next' = m_next
    /\ last_refresh' = NoRefresh
    /\ UNCHANGED <<fired, next_timeout, at_front, front_calls>>
    /\ idle_pc' = "drain"
    /\ UNCHANGED <<clock, m_tickled, created, m_ms, m_next, m_recurring, m_cb, m_timers,
                   now, temp, cbs, cancelled, refused>>
    /\ UNCHANGED m_tasks
    /\ UNCHANGED notTimerVars

\* the loop condition of listExpiredCb
Expired == m_timers # {} /\ (rollover \/ m_next[SetBegin(m_timers, m_next)] <= now)

\* loop body, first half: temp = *begin(); erase(begin()); cbs.push_back(temp->m_cb)
ListExpiredPop ==
    /\ ~aborted
    /\ idle_pc = "drain"
    /\ Expired
    /\ temp' = SetBegin(m_timers, m_next)
    /\ m_timers' = m_timers \ {temp'}
    /\ cbs' = PushBack(cbs, temp')
    /\ fired' = fired \cup {temp'}
    /\ idle_pc' = "reinsert"
    /\ UNCHANGED <<clock, m_previouseTime, m_tickled, created, m_ms, m_next, m_recurring,
                   m_cb, now, rollover, cancelled, refused, d_timers, d_next, last_refresh,
                   next_timeout, at_front, front_calls>>
    /\ UNCHANGED m_tasks
    /\ UNCHANGED notTimerVars

\* loop body, second half: a recurring timer gets m_next = now + m_ms and is inserted,
\* any other has its m_cb cleared
ListExpiredReinsert ==
    /\ ~aborted
    /\ idle_pc = "reinsert"
    /\ IF m_recurring[temp]
       THEN /\ m_next' = [m_next EXCEPT ![temp] = now + Ms(m_ms[temp])]
            /\ m_timers' = SetInsert(m_timers, m_next', temp)
            /\ UNCHANGED m_cb
       ELSE /\ m_cb' = [m_cb EXCEPT ![temp] = FALSE]
            /\ UNCHANGED <<m_next, m_timers>>
    /\ temp' = NoTimer
    /\ idle_pc' = "drain"
    /\ UNCHANGED <<clock, m_previouseTime, m_tickled, created, m_ms, m_recurring, now,
                   rollover, cbs, cancelled, refused, d_timers, d_next, fired, last_refresh,
                   next_timeout, at_front, front_calls>>
    /\ UNCHANGED m_tasks
    /\ UNCHANGED notTimerVars

\* the loop condition is false: listExpiredCb returns and releases m_mutex
ListExpiredReturn ==
    /\ ~aborted
    /\ idle_pc = "drain"
    /\ ~Expired
    /\ idle_pc' = "drained"
    /\ UNCHANGED timerVars
    /\ UNCHANGED m_tasks
    /\ UNCHANGED notTimerVars

\* idle(): scheduleLock(cb) for every cb in cbs, in order; epoll_wait returned no event
ScheduleCbs ==
    /\ ~aborted
    /\ idle_pc = "drained"
    /\ m_tasks' = m_tasks \o [i \in 1 .. Len(cbs) |-> TimerTask(cbs[i])]
    /\ cbs' = <<>>
    /\ rollover' = FALSE
    /\ d_timers' = {}
    /\ d_next' = [t \in Timers |-> 0]
    /\ UNCHANGED <<fired, last_refresh, next_timeout, at_front, front_calls>>
    /\ idle_pc' = "events"
    /\ UNCHANGED <<clock, m_previouseTime, m_tickled, created, m_ms, m_next, m_recurring,
                   m_cb, m_timers, now, temp, cancelled, refused>>
    /\ UNCHANGED notTimerVars

\* the steps of the worker thread when timers are in use
TimerWorkerProgress ==
    \/ IdleTimeout
    \/ ListExpiredNow
    \/ ListExpiredLock
    \/ ListExpiredPop
    \/ ListExpiredReinsert
    \/ ListExpiredReturn
    \/ ScheduleCbs
    \/ IdleYield
    \/ RunTask
    \/ IdleResume

TimerNext ==
    \/ ClockTick
    \/ ClockJumpBack
    \/ \E t \in Timers, ms \in Periods, recurring \in BOOLEAN : AddTimer(t, ms, recurring)
    \/ \E t \in Timers : Cancel(t)
    \/ \E t \in Timers : Refresh(t)
    \/ TimerWorkerProgress

\* the same program with addTimer taken step by step and a clock that only moves forward
TimerFrontNext ==
    \/ ClockTick
    \/ \E t \in Timers, ms \in Periods, recurring \in BOOLEAN :
          AddTimerInsert(t, ms, recurring)
    \/ \E t \in Timers : OnTimerInsertedAtFront(t)
    \/ \E t \in Timers : Cancel(t)
    \/ TimerWorkerProgress

----------------------------------------------------------------------------
(* hook: the interposed system calls (do_io behind read, the sleep family,     *)
(* close, fcntl, ioctl, setsockopt, socket), FdManager, the kernel's view of   *)
(* the fds, and the workers that run what the calls and their timers enqueue.  *)
(* No data ever arrives on a socket: a raw read of an open non-blocking socket *)
(* fails with EAGAIN.                                                          *)

\* the callers of interposed calls: one fiber each, on a thread of the IOManager; the
\* timer a call of caller h creates is timer h
HookFibers == 1 .. NumTimers

NoTimeout == -1         \* (uint64_t)-1: no timeout set on the FdCtx
EBADF == 9
EAGAIN == 11
ETIMEDOUT == 110
O_NONBLOCK == 2048

\* a null entry of FdManager::m_datas, and the FdCtx the constructor and init() make
\* for a socket
NoCtx == [exists |-> FALSE, sysNonblock |-> FALSE, userNonblock |-> FALSE,
          recvTimeout |-> NoTimeout]
NewCtx == [exists |-> TRUE, sysNonblock |-> TRUE, userNonblock |-> FALSE,
           recvTimeout |-> NoTimeout]

NoCall == [fn |-> "none", fd |-> 0]

\* the task that resumes the fiber of caller h
FiberTask(h) == [fiber |-> h, cb |-> 0, thread |-> AnyThread]

\* what the steps of the interposed calls never write
hookFrame == <<fiberRest, aborted, wakeVars, tableVars, resetVars, fd_mutex, idle_pc, ep_events, op, rt, last_add, io_adds,
               clock,
               m_previouseTime, now, rollover, temp, cbs, d_timers, d_next, fired, last_refresh,
                   next_timeout, at_front, front_calls>>
hookIO == <<events, event_ctx, m_pendingEventCount, k_interest, k_ready>>
hookTimers == <<m_tickled, created, m_ms, m_next, m_recurring, m_cb, m_timers, cancelled, refused>>

\* no fd is open, no FdCtx exists, t_hook_enable has its initial value false
HookInit ==
    /\ t_hook_enable = [h \in HookFibers |-> FALSE]
    /\ m_datas = [fd \in Fds |-> NoCtx]
    /\ k_open = [fd \in Fds |-> FALSE]
    /\ k_nonblock = [fd \in Fds |-> FALSE]
    /\ h_pc = [h \in HookFibers |-> "idle"]
    /\ h_call = [h \in HookFibers |-> NoCall]
    /\ h_timeout = [h \in HookFibers |-> NoTimeout]
    /\ tinfo = [h \in HookFibers |-> 0]
    /\ h_ret = [h \in HookFibers |-> 0]
    /\ h_errno = [h \in HookFibers |-> 0]
    /\ h_pending = {}

\* the interposed call of caller h returns r, with errno e
Return(h, r, e) ==
    /\ h_pc' = [h_pc EXCEPT ![h] = "returned"]
    /\ h_ret' = [h_ret EXCEPT ![h] = r]
    /\ h_errno' = [h_errno EXCEPT ![h] = e]

\* caller h goes on to position pc of its call
Goto(h, pc) ==
    /\ h_pc' = [h_pc EXCEPT ![h] = pc]
    /\ UNCHANGED <<h_ret, h_errno>>

\* the program sets up its threads and sockets before the first call that can park
Configuring == \A h \in HookFibers : h_call[h] = NoCall

\* set_hook_enable(flag) on the thread of caller h
SetHookEnable(h, flag) ==
    /\ ~aborted
    /\ Configuring
    /\ h_pc[h] = "idle"
    /\ t_hook_enable[h] # flag
    /\ t_hook_enable' = [t_hook_enable EXCEPT ![h] = flag]
    /\ UNCHANGED <<m_datas, k_open, k_nonblock, h_pc, h_call, h_timeout, tinfo, h_ret,
                   h_errno, h_pending>>
    /\ UNCHANGED <<hookFrame, hookIO, hookTimers, m_tasks>>

----------------------------------------------------------------------------
(* The raw system calls *)

\* socket_f: the fd is opened, blocking
RawSocket(fd) ==
    /\ k_open' = [k_open EXCEPT ![fd] = TRUE]
    /\ k_nonblock' = [k_nonblock EXCEPT ![fd] = FALSE]

\* fcntl_f(fd, F_SETFL, arg) on an open fd: O_NONBLOCK becomes what arg says
RawSetFl(fd, nonblock) == k_nonblock' = [k_nonblock EXCEPT ![fd] = nonblock]

\* fcntl_f(fd, F_GETFL) on an open fd
RawGetFl(fd) == IF k_nonblock[fd] THEN O_NONBLOCK ELSE 0

\* close_f(fd) by caller h: an open fd is closed, which also takes it off the epoll
\* interest list; otherwise -1 with EBADF
RawClose(h, fd) ==
    /\ k_open' = [k_open EXCEPT ![fd] = FALSE]
    /\ k_interest' = [k_interest EXCEPT ![fd] = {}]
    /\ k_ready' = [k_ready EXCEPT ![fd] = {}]
    /\ IF k_open[fd] THEN Return(h, 0, h_errno[h]) ELSE Return(h, -1, EBADF)

\* read_f(fd) by caller h outside do_io's retry loop: EBADF on a closed fd, EAGAIN on a
\* non-blocking socket; on a blocking one the thread stays in the kernel
RawRead(h, fd) ==
    IF ~k_open[fd] THEN Return(h, -1, EBADF)
    ELSE IF k_nonblock[fd] THEN Return(h, -1, EAGAIN)
    ELSE Goto(h, "blocked")

----------------------------------------------------------------------------
(* The calls that return at once: socket, setsockopt, fcntl, ioctl *)

\* socket(): socket_f, and with the hook enabled FdMgr::get(fd, true), which keeps an
\* FdCtx that is already there and otherwise makes one, whose init() sets O_NONBLOCK
Socket(h, fd) ==
    /\ ~aborted
    /\ Configuring
    /\ h_pc[h] = "idle"
    /\ ~k_open[fd]
    /\ k_open' = [k_open EXCEPT ![fd] = TRUE]
    /\ IF t_hook_enable[h] /\ ~m_datas[fd].exists
       THEN /\ m_datas' = [m_datas EXCEPT ![fd] = NewCtx]
            /\ k_nonblock' = [k_nonblock EXCEPT ![fd] = TRUE]
       ELSE /\ k_nonblock' = [k_nonblock EXCEPT ![fd] = FALSE]
            /\ UNCHANGED m_datas
    /\ h_ret' = [h_ret EXCEPT ![h] = fd]
    /\ UNCHANGED <<t_hook_enable, h_pc, h_call, h_timeout, tinfo, h_errno, h_pending>>
    /\ UNCHANGED <<hookFrame, hookIO, hookTimers, m_tasks>>

\* setsockopt(fd, SOL_SOCKET, SO_RCVTIMEO, ms) on an open fd: with the hook enabled the
\* FdCtx, if there is one, records the timeout; setsockopt_f returns 0
Setsockopt(h, fd, ms) ==
    /\ ~aborted
    /\ Configuring
    /\ h_pc[h] = "idle"
    /\ k_open[fd]
    /\ m_datas' = IF t_hook_enable[h] /\ m_datas[fd].exists
                  THEN [m_datas EXCEPT ![fd].recvTimeout = ms]
                  ELSE m_datas
    /\ h_ret' = [h_ret EXCEPT ![h] = 0]
    /\ UNCHANGED <<t_hook_enable, k_open, k_nonblock, h_pc, h_call, h_timeout, tinfo,
                   h_errno, h_pending>>
    /\ UNCHANGED <<hookFrame, hookIO, hookTimers, m_tasks>>

\* fcntl(fd, F_SETFL, arg) on an open fd: t_hook_enable is not looked at.  Without an
\* FdCtx the call is fcntl_f as it is; with one, m_userNonblock takes the O_NONBLOCK bit
\* of arg and the bit passed to fcntl_f is m_sysNonblock
FcntlSetFl(h, fd, nonblock) ==
    /\ ~aborted
    /\ Configuring
    /\ h_pc[h] = "idle"
    /\ k_open[fd]
    /\ IF ~m_datas[fd].exists
       THEN /\ RawSetFl(fd, nonblock)
            /\ UNCHANGED m_datas
       ELSE /\ m_datas' = [m_datas EXCEPT ![fd].userNonblock = nonblock]
            /\ RawSetFl(fd, m_datas[fd].sysNonblock)
    /\ h_ret' = [h_ret EXCEPT ![h] = 0]
    /\ UNCHANGED <<t_hook_enable, k_open, h_pc, h_call, h_timeout, tinfo, h_errno,
                   h_pending>>
    /\ UNCHANGED <<hookFrame, hookIO, hookTimers, m_tasks>>

\* what fcntl(fd, F_GETFL) returns on an open fd: the flags of fcntl_f, and with an FdCtx
\* the O_NONBLOCK bit replaced by m_userNonblock
GetFlResult(fd) ==
    IF ~m_datas[fd].exists THEN RawGetFl(fd)
    ELSE IF m_datas[fd].userNonblock THEN O_NONBLOCK ELSE 0

\* fcntl(fd, F_GETFL) on an open fd: t_hook_enable is not looked at
FcntlGetFl(h, fd) ==
    /\ ~aborted
    /\ Configuring
    /\ h_pc[h] = "idle"
    /\ k_open[fd]
    /\ h_ret' = [h_ret EXCEPT ![h] = GetFlResult(fd)]
    /\ UNCHANGED <<t_hook_enable, m_datas, k_open, k_nonblock, h_pc, h_call, h_timeout,
                   tinfo, h_errno, h_pending>>
    /\ UNCHANGED <<hookFrame, hookIO, hookTimers, m_tasks>>

\* ioctl(fd, FIONBIO, &on) on an open fd: t_hook_enable is not looked at; the FdCtx, if
\* there is one, records m_userNonblock, and ioctl_f is called with the same argument
Ioctl(h, fd, on) ==
    /\ ~aborted
    /\ Configuring
    /\ h_pc[h] = "idle"
    /\ k_open[fd]
    /\ m_datas' = IF m_datas[fd].exists
                  THEN [m_datas EXCEPT ![fd].userNonblock = on]
                  ELSE m_datas
    /\ RawSetFl(fd, on)
    /\ h_ret' = [h_ret EXCEPT ![h] = 0]
    /\ UNCHANGED <<t_hook_enable, k_open, h_pc, h_call, h_timeout, tinfo, h_errno,
                   h_pending>>
    /\ UNCHANGED <<hookFrame, hookIO, hookTimers, m_tasks>>

----------------------------------------------------------------------------
(* IOManager::addEvent, cancelEvent and cancelAll as the interposed calls and the *)
(* timer callables run them: from the first statement to the last, under          *)
(* FdContext::mutex.  q is the task queue the call finds.                         *)

\* epoll_ctl on an fd that is closed fails with EBADF
HookEpollCtlOk(fd, epop) == k_open[fd] /\ EpollCtlOk(fd, epop)

\* addEvent(fd, event) with no callable succeeds: the event is not armed and epoll_ctl
\* succeeds
AddEventOk(fd, e) ==
    ~AlreadyArmed(fd, e) /\ HookEpollCtlOk(fd, EpollOp(events[fd], events[fd] \cup {e}))

\* the successful addEvent: the slot takes the scheduler and the current fiber
AddEventNow(h, fd, e) ==
    /\ EpollCtl(fd, events[fd] \cup {e})
    /\ m_pendingEventCount' = m_pendingEventCount + 1
    /\ events' = [events EXCEPT ![fd] = @ \cup {e}]
    /\ event_ctx' = [event_ctx EXCEPT ![fd][e] = [scheduler |-> TRUE, fiber |-> h, cb |-> 0]]

\* a trigger sequence that ran on the view st is written back
StoreTriggered(fd, st) ==
    /\ events' = [events EXCEPT ![fd] = st.events]
    /\ event_ctx' = [event_ctx EXCEPT ![fd] = st.ctx]
    /\ m_tasks' = st.tasks
    /\ m_pendingEventCount' = st.pending

\* cancelEvent(fd, event): nothing when the event is not armed or epoll_ctl fails;
\* otherwise --m_pendingEventCount and triggerEvent
CancelEventNow(fd, e, q) ==
    IF e \in events[fd] /\ HookEpollCtlOk(fd, EpollOp(events[fd], events[fd] \ {e}))
    THEN /\ EpollCtl(fd, events[fd] \ {e})
         /\ StoreTriggered(fd, TriggerAndCount([FdView(fd) EXCEPT !.tasks = q], e))
    ELSE /\ m_tasks' = q
         /\ UNCHANGED hookIO

\* cancelAll(fd): nothing when no event is armed or epoll_ctl(DEL) fails; otherwise READ
\* and WRITE are triggered and counted, each if armed
CancelAllNow(fd, q) ==
    IF events[fd] # {} /\ HookEpollCtlOk(fd, "DEL")
    THEN LET s0 == [FdView(fd) EXCEPT !.tasks = q]
             s1 == IF "READ" \in s0.events THEN TriggerAndCount(s0, "READ") ELSE s0
             s2 == IF "WRITE" \in s1.events THEN TriggerAndCount(s1, "WRITE") ELSE s1
         IN  /\ EpollCtl(fd, {})
             /\ StoreTriggered(fd, s2)
    ELSE /\ m_tasks' = q
         /\ UNCHANGED hookIO

----------------------------------------------------------------------------
(* sleep / usleep / nanosleep *)

\* sleep(ms): with the hook disabled sleep_f, which returns 0 when the time is over;
\* with it enabled addTimer(ms, [fiber, iom]{ iom->scheduleLock(fiber); }), one-shot
Sleep(h, ms) ==
    /\ ~aborted
    /\ h_pc[h] = "idle"
    /\ h_call[h] = NoCall
    /\ h_call' = [h_call EXCEPT ![h] = [fn |-> "sleep", fd |-> 0]]
    /\ IF ~t_hook_enable[h]
       THEN /\ Return(h, 0, h_errno[h])
            /\ UNCHANGED hookTimers
       ELSE /\ TimerLockFree
            /\ NewTimer(h, ms, FALSE)
            /\ Goto(h, "yield")
            /\ UNCHANGED <<cancelled, refused>>
    /\ UNCHANGED <<t_hook_enable, m_datas, k_open, k_nonblock, h_timeout, tinfo, h_pending>>
    /\ UNCHANGED <<hookFrame, hookIO, m_tasks>>

\* fiber->yield() in sleep and in do_io: the fiber is READY and its worker is back in
\* run(), which releases Fiber::m_mutex
HookYield(h) ==
    /\ ~aborted
    /\ h_pc[h] = "yield"
    /\ Goto(h, "parked")
    /\ UNCHANGED <<t_hook_enable, m_datas, k_open, k_nonblock, h_call, h_timeout, tinfo,
                   h_pending>>
    /\ UNCHANGED <<hookFrame, hookIO, hookTimers, m_tasks>>

\* sleep after its yield: return 0
SleepReturn(h) ==
    /\ ~aborted
    /\ h_pc[h] = "resumed"
    /\ h_call[h].fn = "sleep"
    /\ Return(h, 0, h_errno[h])
    /\ UNCHANGED <<t_hook_enable, m_datas, k_open, k_nonblock, h_call, h_timeout, tinfo,
                   h_pending>>
    /\ UNCHANGED <<hookFrame, hookIO, hookTimers, m_tasks>>

----------------------------------------------------------------------------
(* read: do_io(fd, read_f, "read", READ, SO_RCVTIMEO) *)

\* do_io up to retry: read_f as it is when the hook is disabled, there is no FdCtx or
\* the user asked for a non-blocking socket (isClosed() is never true, and every FdCtx
\* is one of a socket); otherwise timeout = getTimeout(SO_RCVTIMEO) and a new timer_info
Read(h, fd) ==
    /\ ~aborted
    /\ h_pc[h] = "idle"
    /\ h_call[h] = NoCall
    /\ h_call' = [h_call EXCEPT ![h] = [fn |-> "read", fd |-> fd]]
    /\ IF ~t_hook_enable[h] \/ ~m_datas[fd].exists \/ m_datas[fd].userNonblock
       THEN /\ RawRead(h, fd)
            /\ UNCHANGED <<h_timeout, tinfo>>
       ELSE /\ h_timeout' = [h_timeout EXCEPT ![h] = m_datas[fd].recvTimeout]
            /\ tinfo' = [tinfo EXCEPT ![h] = 0]
            /\ Goto(h, "retry")
    /\ UNCHANGED <<t_hook_enable, m_datas, k_open, k_nonblock, h_pending>>
    /\ UNCHANGED <<hookFrame, hookIO, hookTimers, m_tasks>>

\* retry: n = read_f(fd); anything but EAGAIN is returned
Retry(h) ==
    /\ ~aborted
    /\ h_pc[h] = "retry"
    /\ IF k_open[h_call[h].fd] /\ k_nonblock[h_call[h].fd]
       THEN /\ h_pc' = [h_pc EXCEPT ![h] = "add_timer"]
            /\ h_errno' = [h_errno EXCEPT ![h] = EAGAIN]
            /\ UNCHANGED h_ret
       ELSE RawRead(h, h_call[h].fd)
    /\ UNCHANGED <<t_hook_enable, m_datas, k_open, k_nonblock, h_call, h_timeout, tinfo,
                   h_pending>>
    /\ UNCHANGED <<hookFrame, hookIO, hookTimers, m_tasks>>

\* if(timeout != -1) timer = iom->addConditionTimer(timeout, lambda, winfo)
AddConditionTimer(h) ==
    /\ ~aborted
    /\ h_pc[h] = "add_timer"
    /\ IF h_timeout[h] # NoTimeout
       THEN /\ TimerLockFree
            /\ NewTimer(h, h_timeout[h], FALSE)
            /\ UNCHANGED <<cancelled, refused>>
       ELSE UNCHANGED hookTimers
    /\ Goto(h, "add_event")
    /\ UNCHANGED <<t_hook_enable, m_datas, k_open, k_nonblock, h_call, h_timeout, tinfo,
                   h_pending>>
    /\ UNCHANGED <<hookFrame, hookIO, m_tasks>>

\* rt = iom->addEvent(fd, READ): when it fails the timer is cancelled and -1 is
\* returned, with the errno of epoll_ctl if that is what failed
AddEventStep(h) ==
    /\ ~aborted
    /\ h_pc[h] = "add_event"
    /\ fd_mutex[h_call[h].fd] = NoThread
    /\ IF AddEventOk(h_call[h].fd, "READ")
       THEN /\ AddEventNow(h, h_call[h].fd, "READ")
            /\ Goto(h, "yield")
            /\ UNCHANGED hookTimers
       ELSE /\ Return(h, -1, IF AlreadyArmed(h_call[h].fd, "READ") THEN h_errno[h] ELSE EBADF)
            /\ IF h_timeout[h] # NoTimeout
               THEN /\ TimerLockFree
                    /\ TimerCancel(h)
                    /\ UNCHANGED <<m_tickled, created, m_ms, m_next, m_recurring>>
               ELSE UNCHANGED hookTimers
            /\ UNCHANGED hookIO
    /\ UNCHANGED <<t_hook_enable, m_datas, k_open, k_nonblock, h_call, h_timeout, tinfo,
                   h_pending>>
    /\ UNCHANGED <<hookFrame, m_tasks>>

\* do_io after its yield: timer->cancel(); ETIMEDOUT when the timer_info says so,
\* otherwise goto retry
ReadResumed(h) ==
    /\ ~aborted
    /\ h_pc[h] = "resumed"
    /\ h_call[h].fn = "read"
    /\ IF h_timeout[h] # NoTimeout
       THEN /\ TimerLockFree
            /\ TimerCancel(h)
            /\ UNCHANGED <<m_tickled, created, m_ms, m_next, m_recurring>>
       ELSE UNCHANGED hookTimers
    /\ IF tinfo[h] = ETIMEDOUT THEN Return(h, -1, ETIMEDOUT) ELSE Goto(h, "retry")
    /\ UNCHANGED <<t_hook_enable, m_datas, k_open, k_nonblock, h_call, h_timeout, tinfo,
                   h_pending>>
    /\ UNCHANGED <<hookFrame, hookIO, m_tasks>>

----------------------------------------------------------------------------
(* close *)

\* close(fd) up to cancelAll: close_f when the hook is disabled or there is no FdCtx
Close(h, fd) ==
    /\ ~aborted
    /\ h_pc[h] = "idle"
    /\ h_call[h] = NoCall
    /\ h_call' = [h_call EXCEPT ![h] = [fn |-> "close", fd |-> fd]]
    /\ IF t_hook_enable[h] /\ m_datas[fd].exists
       THEN /\ Goto(h, "cancel_all")
            /\ UNCHANGED <<k_open, k_interest, k_ready>>
       ELSE RawClose(h, fd)
    /\ UNCHANGED <<t_hook_enable, m_datas, k_nonblock, h_timeout, tinfo, h_pending>>
    /\ UNCHANGED <<events, event_ctx, m_pendingEventCount>>
    /\ UNCHANGED <<hookFrame, hookTimers, m_tasks>>

\* close: iom->cancelAll(fd)
CloseCancelAll(h) ==
    /\ ~aborted
    /\ h_pc[h] = "cancel_all"
    /\ fd_mutex[h_call[h].fd] = NoThread
    /\ CancelAllNow(h_call[h].fd, m_tasks)
    /\ Goto(h, "del")
    /\ UNCHANGED <<t_hook_enable, m_datas, k_open, k_nonblock, h_call, h_timeout, tinfo,
                   h_pending>>
    /\ UNCHANGED <<hookFrame, hookTimers>>

\* close: FdMgr::GetInstance()->del(fd)
CloseDel(h) ==
    /\ ~aborted
    /\ h_pc[h] = "del"
    /\ m_datas' = [m_datas EXCEPT ![h_call[h].fd] = NoCtx]
    /\ Goto(h, "close_f")
    /\ UNCHANGED <<t_hook_enable, k_open, k_nonblock, h_call, h_timeout, tinfo, h_pending>>
    /\ UNCHANGED <<hookFrame, hookIO, hookTimers, m_tasks>>

\* close: return close_f(fd)
CloseRaw(h) ==
    /\ ~aborted
    /\ h_pc[h] = "close_f"
    /\ RawClose(h, h_call[h].fd)
    /\ UNCHANGED <<t_hook_enable, m_datas, k_nonblock, h_call, h_timeout, tinfo, h_pending>>
    /\ UNCHANGED <<events, event_ctx, m_pendingEventCount>>
    /\ UNCHANGED <<hookFrame, hookTimers, m_tasks>>

----------------------------------------------------------------------------
(* The workers of the IOManager, the idle() thread and the clock *)

\* the timer whose callable is cb (TimerCb backwards)
TimerOfCb(cb) == cb - MaxAdds

\* the timer_info of the call of h is alive while do_io has not returned
TinfoAlive(h) == h_call[h].fn = "read" /\ h_pc[h] \notin {"idle", "returned", "blocked"}

\* Scheduler::run takes the task at the head of the queue and runs it.
\* A callable is the lambda of a timer: the one of sleep does scheduleLock(fiber); the
\* one of do_io runs behind OnTimer, which needs the timer_info alive, and, unless
\* cancelled is set already, sets it to ETIMEDOUT and calls cancelEvent(fd, READ).
\* A fiber is resumed under Fiber::m_mutex: at once when it has yielded, not at all when
\* its call has returned and it is over, and otherwise once the worker that runs it has
\* let go of the mutex.
HookRunTask ==
    /\ ~aborted
    /\ m_tasks # <<>>
    /\ LET task == Head(m_tasks)
           q == Tail(m_tasks)
           h == IF task.cb # 0 THEN TimerOfCb(task.cb) ELSE task.fiber
       IN  IF task.cb # 0
           THEN /\ IF h_call[h].fn = "sleep"
                   THEN /\ m_tasks' = Append(q, FiberTask(h))
                        /\ UNCHANGED <<hookIO, tinfo>>
                   ELSE IF TinfoAlive(h) /\ tinfo[h] = 0
                   THEN /\ fd_mutex[h_call[h].fd] = NoThread
                        /\ tinfo' = [tinfo EXCEPT ![h] = ETIMEDOUT]
                        /\ CancelEventNow(h_call[h].fd, "READ", q)
                   ELSE /\ m_tasks' = q
                        /\ UNCHANGED <<hookIO, tinfo>>
                /\ UNCHANGED <<h_pc, h_pending>>
           ELSE /\ m_tasks' = q
                /\ h_pc' = IF h_pc[h] = "parked" THEN [h_pc EXCEPT ![h] = "resumed"] ELSE h_pc
                /\ h_pending' = IF h_pc[h] \in {"parked", "returned"}
                                THEN h_pending ELSE h_pending \cup {h}
                /\ UNCHANGED <<hookIO, tinfo>>
    /\ UNCHANGED <<t_hook_enable, m_datas, k_open, k_nonblock, h_call, h_timeout, h_ret,
                   h_errno>>
    /\ UNCHANGED <<hookFrame, hookTimers>>

\* a worker that waited for Fiber::m_mutex gets it: the fiber has yielded and is
\* resumed, or is over and is left alone
ResumePending(h) ==
    /\ ~aborted
    /\ h \in h_pending
    /\ h_pc[h] \in {"parked", "returned"}
    /\ h_pending' = h_pending \ {h}
    /\ h_pc' = IF h_pc[h] = "parked" THEN [h_pc EXCEPT ![h] = "resumed"] ELSE h_pc
    /\ UNCHANGED <<t_hook_enable, m_datas, k_open, k_nonblock, h_call, h_timeout, tinfo,
                   h_ret, h_errno>>
    /\ UNCHANGED <<hookFrame, hookIO, hookTimers, m_tasks>>

\* the clock moves on while a timer is waiting for its deadline (time that passes
\* while none is waiting changes nothing here)
Elapse ==
    /\ ~aborted
    /\ \E t \in m_timers : m_next[t] > clock
    /\ clock' = clock + 1
    /\ UNCHANGED <<m_previouseTime, m_tickled, created, m_ms, m_next, m_recurring, m_cb,
                   m_timers, now, rollover, temp, cbs, cancelled, refused, d_timers, d_next,
               fired, last_refresh,
                   next_timeout, at_front, front_calls>>
    /\ UNCHANGED <<idle_pc, m_tasks>>
    /\ UNCHANGED notTimerVars

\* the steps caller h takes inside its interposed call
HookProgress(h) ==
    \/ HookYield(h)
    \/ SleepReturn(h)
    \/ Retry(h)
    \/ AddConditionTimer(h)
    \/ AddEventStep(h)
    \/ ReadResumed(h)
    \/ CloseCancelAll(h)
    \/ CloseDel(h)
    \/ CloseRaw(h)

\* the workers in Scheduler::run
HookWorker ==
    \/ HookRunTask
    \/ \E h \in HookFibers : ResumePending(h)

\* idle(): epoll_wait returns when the next timer is due or a timer was put at the
\* front of the set; a return after MAX_TIMEOUT, or for a tickle that finds no timer
\* due, changes nothing
IdleWake ==
    /\ m_tickled \/ \E t \in m_timers : m_next[t] <= clock
    /\ IdleTimeout

\* idle(): epoll_wait returns the events that are ready, each reported once; then
\* listExpiredCb runs as after any return
IdleWaitReady ==
    /\ ~aborted
    /\ idle_pc = "wait"
    /\ \E fd \in Fds : k_ready[fd] # {}
    /\ ep_events' = k_ready
    /\ k_ready' = [fd \in Fds |-> {}]
    /\ next_timeout' = Min(GetNextTimer, MAX_TIMEOUT)
    /\ m_tickled' = FALSE
    /\ front_calls' = 0
    /\ idle_pc' = "expired"
    /\ UNCHANGED <<clock, m_previouseTime, created, m_ms, m_next, m_recurring, m_cb,
                   m_timers, now, rollover, temp, cbs, cancelled, refused, d_timers, d_next,
                   fired, last_refresh, at_front>>
    /\ UNCHANGED <<events, event_ctx, fd_mutex, m_pendingEventCount, k_interest, op, rt,
                   last_add, io_adds, m_tasks, aborted>>
    /\ UNCHANGED <<fiberRest, hookVars, wakeVars, tableVars, resetVars>>

\* the thread in IOManager::idle: no IO event is ever ready
HookIdle ==
    \/ IdleWake
    \/ ListExpiredNow
    \/ ListExpiredLock
    \/ ListExpiredPop
    \/ ListExpiredReinsert
    \/ ListExpiredReturn
    \/ ScheduleCbs
    \/ IdleYield
    \/ IdleResume

\* a program that leaves the file status flags of its sockets alone
HookCallsNext ==
    \/ \E h \in HookFibers, flag \in BOOLEAN : SetHookEnable(h, flag)
    \/ \E h \in HookFibers, fd \in Fds : Socket(h, fd)
    \/ \E h \in HookFibers, fd \in Fds, ms \in Periods : Setsockopt(h, fd, ms)
    \/ \E h \in HookFibers, ms \in Periods : Sleep(h, ms)
    \/ \E h \in HookFibers, fd \in Fds : Read(h, fd)
    \/ \E h \in HookFibers, fd \in Fds : Close(h, fd)
    \/ \E h \in HookFibers : HookProgress(h)
    \/ HookWorker
    \/ Elapse
    \/ HookIdle

\* any program
HookNext ==
    \/ HookCallsNext
    \/ \E h \in HookFibers, fd \in Fds, nonblock \in BOOLEAN : FcntlSetFl(h, fd, nonblock)
    \/ \E h \in HookFibers, fd \in Fds : FcntlGetFl(h, fd)
    \/ \E h \in HookFibers, fd \in Fds, on \in BOOLEAN : Ioctl(h, fd, on)

\* one fiber reading, with a timeout, a socket that becomes readable or fails at any
\* time in the first MaxReadyTicks clock readings; a second fiber sleeps and closes it
Reader == CHOOSE h \in HookFibers : \A g \in HookFibers : h <= g
Closer == CHOOSE h \in HookFibers : \A g \in HookFibers : g <= h
MaxReadyTicks == 3
SocketReady(fd, E) == clock < Epoch + MaxReadyTicks /\ Readiness(fd, E)
HookReadyNext ==
    \/ \E h \in {Reader, Closer} : SetHookEnable(h, TRUE)
    \/ \E fd \in Fds : Socket(Reader, fd)
    \/ \E fd \in Fds, ms \in Periods : Setsockopt(Reader, fd, ms)
    \/ \E fd \in Fds : Read(Reader, fd)
    \/ \E ms \in Periods : Sleep(Closer, ms)
    \/ \E fd \in Fds : Close(Closer, fd)
    \/ \E h \in HookFibers : HookProgress(h)
    \/ HookWorker
    \/ Elapse
    \/ HookIdle
    \/ \E fd \in Fds, E \in SUBSET {"READ", "ERR"} : SocketReady(fd, E)
    \/ IdleWaitReady
    \/ \E fd \in Fds : IdleEvent(fd)

----------------------------------------------------------------------------
(* FdManager::get and FdManager::del, and the lookup that opens                *)
(* IOManager::addEvent: the two tables indexed by fd, and their growth.         *)
(* A section under a lock is one step; between the release of the reader lock  *)
(* and the writer lock other threads run.                                       *)

NumGetters == 2                 \* threads calling get / del / addEvent
Getters == 1 .. NumGetters
MaxCtx == 2                     \* get() calls begin while fewer FdCtx than this were made
NullCtx == 0                    \* a null shared_ptr<FdCtx>
InvalidFd == -1
\* the fds the callers pass: below, at and above the initial sizes and the grown sizes
TableFds == {1, 32, 64, 96}
DatasInitialSize == 64          \* FdManager::FdManager: m_datas.resize(64)
ContextsInitialSize == 32       \* IOManager::IOManager: contextResize(32)

\* resize(fd * 1.5): the product is a double, converted to size_t by truncation
GrownToFd(fd) == fd
Grown(fd) == (3 * fd) \div 2

NoGet == [pc |-> "none", fd |-> InvalidFd, auto_create |-> FALSE, ret |-> NullCtx,
           grown |-> FALSE, crossed |-> FALSE]

TableInit ==
    /\ datas_size = DatasInitialSize
    /\ datas_ctx = [fd \in TableFds |-> NullCtx]
    /\ ctx_made = 0
    /\ ctx_flags = {}
    /\ fdContexts_size = ContextsInitialSize
    /\ get_call = [c \in Getters |-> NoGet]

\* get(fd, auto_create) up to read_lock.unlock(): what it returns under the reader lock,
\* or that it goes on to the writer lock
GetUnderReadLock(fd, auto_create) ==
    LET call == [NoGet EXCEPT !.fd = fd, !.auto_create = auto_create] IN
    IF fd = InvalidFd
    THEN [call EXCEPT !.pc = "done"]
    ELSE IF datas_size <= fd
         THEN IF ~auto_create
              THEN [call EXCEPT !.pc = "done"]
              ELSE [call EXCEPT !.pc = "upgrade"]
         ELSE IF datas_ctx[fd] # NullCtx \/ ~auto_create
              THEN [call EXCEPT !.pc = "done", !.ret = datas_ctx[fd]]
              ELSE [call EXCEPT !.pc = "upgrade"]

GetLookup(c, fd, auto_create) ==
    /\ get_call[c].pc = "none"
    /\ ctx_made < MaxCtx
    /\ get_call' = [get_call EXCEPT ![c] = GetUnderReadLock(fd, auto_create)]
    /\ UNCHANGED <<datas_size, datas_ctx, ctx_made, ctx_flags, fdContexts_size>>
    /\ UNCHANGED notTableVars

\* get() under the writer lock: the size is looked at again, m_datas[fd] is not; a new
\* FdCtx is made and stored
GetCreate(c) ==
    /\ get_call[c].pc = "upgrade"
    /\ LET fd == get_call[c].fd
           made == ctx_made + 1
       IN /\ datas_size' = IF datas_size <= fd THEN Grown(fd) ELSE datas_size
          /\ ctx_made' = made
          /\ datas_ctx' = [datas_ctx EXCEPT ![fd] = made]
          /\ get_call' = [get_call EXCEPT ![c].pc = "done", ![c].ret = made,
                                          ![c].grown = (datas_size <= fd)]
    /\ UNCHANGED <<ctx_flags, fdContexts_size>>
    /\ UNCHANGED notTableVars

\* the caller records something on the FdCtx it was given: setUserNonblock(true)
SetUserNonblock(c) ==
    /\ get_call[c].pc = "done"
    /\ get_call[c].ret # NullCtx
    /\ get_call[c].ret \notin ctx_flags
    /\ ctx_flags' = ctx_flags \cup {get_call[c].ret}
    /\ UNCHANGED <<datas_size, datas_ctx, ctx_made, fdContexts_size, get_call>>
    /\ UNCHANGED notTableVars

\* the caller lets go of what get() or the lookup of addEvent gave it
TableReturn(c) ==
    /\ get_call[c].pc \in {"done", "found"}
    /\ get_call' = [get_call EXCEPT ![c] = NoGet]
    /\ UNCHANGED <<datas_size, datas_ctx, ctx_made, ctx_flags, fdContexts_size>>
    /\ UNCHANGED notTableVars

\* FdManager::del(fd), under the writer lock; the calls of get(fd) that began before it
\* are no longer calls made since the last removal
FdDel(c, fd) ==
    /\ get_call[c].pc = "none"
    /\ IF datas_size <= fd
       THEN UNCHANGED <<datas_ctx, get_call>>
       ELSE /\ datas_ctx' = [datas_ctx EXCEPT ![fd] = NullCtx]
            /\ get_call' = [d \in Getters |->
                               IF get_call[d].pc # "none" /\ get_call[d].fd = fd
                               THEN [get_call[d] EXCEPT !.crossed = TRUE]
                               ELSE get_call[d]]
    /\ UNCHANGED <<datas_size, ctx_made, ctx_flags, fdContexts_size>>
    /\ UNCHANGED notTableVars

\* addEvent(fd, ...) up to read_lock.unlock(): (int)m_fdContexts.size() > fd
AddEventLookup(c, fd) ==
    /\ get_call[c].pc = "none"
    /\ get_call' = [get_call EXCEPT ![c] =
                       [NoGet EXCEPT !.fd = fd,
                                      !.pc = IF fdContexts_size > fd THEN "found"
                                                                     ELSE "resize"]]
    /\ UNCHANGED <<datas_size, datas_ctx, ctx_made, ctx_flags, fdContexts_size>>
    /\ UNCHANGED notTableVars

\* addEvent under the writer lock: contextResize(fd * 1.5) whatever the size is by now,
\* then fd_ctx = m_fdContexts[fd]
AddEventResize(c) ==
    /\ get_call[c].pc = "resize"
    /\ fdContexts_size' = Grown(get_call[c].fd)
    /\ get_call' = [get_call EXCEPT ![c].pc = "found", ![c].grown = TRUE]
    /\ UNCHANGED <<datas_size, datas_ctx, ctx_made, ctx_flags>>
    /\ UNCHANGED notTableVars

TableNext ==
    \/ \E c \in Getters, fd \in TableFds \cup {InvalidFd}, auto_create \in BOOLEAN :
          GetLookup(c, fd, auto_create)
    \/ \E c \in Getters : GetCreate(c)
    \/ \E c \in Getters : SetUserNonblock(c)
    \/ \E c \in Getters : TableReturn(c)
    \/ \E c \in Getters, fd \in TableFds \cup {InvalidFd} : FdDel(c, fd)
    \/ \E c \in Getters, fd \in TableFds : AddEventLookup(c, fd)
    \/ \E c \in Getters : AddEventResize(c)

----------------------------------------------------------------------------
(* Timer::reset: the erase under m_mutex, then, with the lock released, the new *)
(* m_ms and m_next and addTimer(shared_from_this())                             *)

NoReset == [pc |-> "none", ms |-> 0, from_now |-> FALSE]

ResetInit == reset_call = [t \in Timers |-> NoReset]

\* reset(ms, from_now) up to the release of m_mutex
ResetErase(t, ms, from_now) ==
    /\ ~aborted
    /\ TimerLockFree
    /\ created[t]
    /\ reset_call[t].pc = "none"
    /\ IF (ms = m_ms[t] /\ ~from_now) \/ ~m_cb[t] \/ SetFind(m_timers, m_next, t) = {}
       THEN UNCHANGED <<m_timers, reset_call>>
       ELSE /\ m_timers' = SetEraseFound(m_timers, m_next, t)
            /\ reset_call' = [reset_call EXCEPT ![t] =
                                 [pc |-> "erased", ms |-> ms, from_now |-> from_now]]
    /\ last_refresh' = NoRefresh
    /\ UNCHANGED <<clock, m_previouseTime, m_tickled, created, m_ms, m_next, m_recurring,
                   m_cb, now, rollover, temp, cbs, cancelled, refused, d_timers, d_next,
                   fired, next_timeout, at_front, front_calls>>
    /\ UNCHANGED <<idle_pc, m_tasks>>
    /\ UNCHANGED <<fiberRest, ioRest, aborted, hookVars, wakeVars, tableVars>>

\* the rest of reset(): start, m_ms, m_next, and addTimer(timer) with its
\* onTimerInsertedAtFront
ResetAdd(t) ==
    /\ ~aborted
    /\ TimerLockFree
    /\ reset_call[t].pc = "erased"
    /\ LET start == IF reset_call[t].from_now THEN clock ELSE m_next[t] - Ms(m_ms[t]) IN
       /\ m_ms' = [m_ms EXCEPT ![t] = reset_call[t].ms]
       /\ m_next' = [m_next EXCEPT ![t] = start + Ms(reset_call[t].ms)]
    /\ m_timers' = SetInsert(m_timers, m_next', t)
    /\ m_tickled' = (m_tickled \/ Equivalent(m_next', SetBegin(m_timers', m_next'), t))
    /\ front_calls' = IF InsertedAtFront(t) THEN CountFrontCall(front_calls) ELSE front_calls
    /\ reset_call' = [reset_call EXCEPT ![t] = NoReset]
    /\ last_refresh' = NoRefresh
    /\ UNCHANGED <<clock, m_previouseTime, created, m_recurring, m_cb, now, rollover, temp,
                   cbs, cancelled, refused, d_timers, d_next, fired, next_timeout, at_front>>
    /\ UNCHANGED <<idle_pc, m_tasks>>
    /\ UNCHANGED <<fiberRest, ioRest, aborted, hookVars, wakeVars, tableVars>>

\* a program with one timer that it cancels, refreshes and resets from several threads,
\* on a clock that only moves forward
TimerResetNext ==
    \/ ClockTick
    \/ \E ms \in Periods, recurring \in BOOLEAN : AddTimer(1, ms, recurring)
    \/ Cancel(1)
    \/ Refresh(1)
    \/ \E ms \in Periods, from_now \in BOOLEAN : ResetErase(1, ms, from_now)
    \/ ResetAdd(1)
    \/ TimerWorkerProgress

----------------------------------------------------------------------------
(* Specifications *)

\* an IOManager is built with use_caller = true
IOManagerInit ==
    FiberInit /\ m_useCaller /\ IOInit /\ TimerInit /\ HookInit /\ WakeInit /\ TableInit /\ ResetInit

\* a plain Scheduler: the IOManager part stays as constructed
SchedulerInit ==
    FiberInit /\ IOInit /\ TimerInit /\ HookInit /\ WakeInit /\ TableInit /\ ResetInit

SpecFiber == SchedulerInit /\ [][FiberNext]_vars

\* the same program with a second call of stop() after the first has returned
StopTwiceNext ==
    \/ FiberNext
    \/ \E s \in {Main, Ext} : StopAgain(s)

SpecStopTwice == SchedulerInit /\ [][StopTwiceNext]_vars

SpecWake == IOManagerInit /\ [][WakeNext]_vars

SpecHookReady == IOManagerInit /\ [][HookReadyNext]_vars

SpecTable == IOManagerInit /\ [][TableNext]_vars

SpecTimerReset == IOManagerInit /\ [][TimerResetNext]_vars

\* the steps thread t takes inside run(), the fiber bodies it runs included
RunProgress(t) ==
    \/ WorkerStart(t)
    \/ Fetch(t)
    \/ ExecResume(t)
    \/ ExecIdle(t)
    \/ ExecExit(t)
    \/ AfterTask(t)
    \/ AfterIdle(t)
    \/ BodyScheduleSelf(t)
    \/ BodyYield(t)
    \/ BodyReturn(t)
    \/ IdleStep(t)
    \/ TrampolineYield(t)

\* every thread inside run() keeps taking steps, and so does the caller of stop()
SpecFiberFair ==
    /\ SpecFiber
    /\ \A t \in Threads : WF_vars(RunProgress(t))
    /\ WF_vars(StopResume \/ StopJoin)

\* a program that submits callables, and none from outside the scheduler once stop()
\* is called: tasks may still put themselves back in the queue
SubmitThenStopNext ==
    \/ /\ stop_pc = "none"
       /\ \E c \in Cbs, thr \in Targets : UserScheduleCb(c, thr)
    \/ Start
    \/ \E t \in Threads : RunProgress(t)
    \/ \E s \in {Main, Ext} : StopBegin(s)
    \/ StopResume
    \/ StopJoin

SpecStopFair ==
    /\ SchedulerInit
    /\ [][SubmitThenStopNext]_vars
    /\ \A t \in Threads : WF_vars(RunProgress(t))
    /\ WF_vars(StopResume \/ StopJoin)

\* a Scheduler that is fed callables only, QueueTasks of them at a time
RunNext ==
    \/ \E c \in QueueCbs, thr \in Targets : UserScheduleCb(c, thr)
    \/ Start
    \/ \E t \in Threads : WorkerStart(t)
    \/ \E t \in Threads : Fetch(t)
    \/ \E t \in Threads : ExecResume(t)
    \/ \E t \in Threads : ExecIdle(t)
    \/ \E t \in Threads : AfterTask(t)
    \/ \E t \in Threads : AfterIdle(t)
    \/ \E t \in Threads : BodyYield(t)
    \/ \E t \in Threads : BodyReturn(t)
    \/ \E t \in Threads : IdleStep(t)
    \/ \E t \in Threads : TrampolineYield(t)
    \/ \E t \in Threads : ExecExit(t)
    \/ \E t \in Threads : BodyScheduleSelf(t)
    \/ \E s \in {Main, Ext} : StopBegin(s)
    \/ StopResume
    \/ StopJoin

SpecRun == SchedulerInit /\ [][RunNext]_vars

SpecIO == IOManagerInit /\ [][IONext]_vars

\* the IOManager in a program that also closes armed fds behind its back
IOCloseNext ==
    \/ IONext
    \/ \E fd \in Fds : KernelClose(fd)

SpecIOClose == IOManagerInit /\ [][IOCloseNext]_vars

SpecTimer == IOManagerInit /\ [][TimerNext]_vars

SpecTimerFront == IOManagerInit /\ [][TimerFrontNext]_vars

\* the worker thread eventually takes the step it can take
SpecTimerFair == SpecTimer /\ WF_vars(TimerWorkerProgress)

\* a thread that can take a step eventually takes one: the worker thread, and every
\* caller inside an operation
SpecIOFair ==
    /\ SpecIO
    /\ WF_vars(WorkerProgress)
    /\ \A c \in Callers : WF_vars(CallerProgress(c))

\* the interposed calls on an IOManager
SpecHook == IOManagerInit /\ [][HookNext]_vars

\* every caller inside a call keeps taking steps, and so do the workers, the thread in
\* idle() and the clock
SpecHookFair ==
    /\ IOManagerInit
    /\ [][HookCallsNext]_vars
    /\ \A h \in HookFibers : WF_vars(HookProgress(h))
    /\ WF_vars(HookWorker)
    /\ WF_vars(HookIdle)
    /\ WF_vars(Elapse)


----------------------------------------------------------------------------
(* Claims about Fiber states *)

FiberStates == {"READY", "RUNNING", "TERM"}
Exists(f) == m_state[f] # "NONE"
CurrentOn(f) == {t \in Threads : t_fiber[t] = f}
InChain(t, f) == \E i \in 1 .. Len(t_chain[t]) : t_chain[t][i] = f

\* C1 as stated: every fiber is READY, RUNNING or TERM, and a RUNNING fiber is the
\* thread-local current fiber of exactly one thread.
C1_RunningIsCurrent ==
    \A f \in Fibers : Exists(f) =>
        /\ m_state[f] \in FiberStates
        /\ m_state[f] = "RUNNING" => Cardinality(CurrentOn(f)) = 1

\* C1 amended: every fiber is READY, RUNNING or TERM, and a RUNNING fiber is, on
\* exactly one thread, either the current fiber or a fiber suspended inside a resume()
\* it called there (the root fiber, or the caller thread's scheduler fiber, while a
\* fiber it resumed is current).
C1_RunningIsCurrentOrResuming ==
    \A f \in Fibers : Exists(f) =>
        /\ m_state[f] \in FiberStates
        /\ m_state[f] = "RUNNING" =>
              Cardinality({t \in Threads : t_fiber[t] = f \/ InChain(t, f)}) = 1

\* a task fiber is running on a worker whose root fiber is suspended in resume()
C1_Witness ==
    \E f \in TaskFibers, t \in Threads :
        /\ m_state[f] = "RUNNING"
        /\ t_fiber[t] = f
        /\ InChain(t, Root(t))
        /\ m_state[Root(t)] = "RUNNING"

\* fibers created with a body: every fiber but the root fibers
WithBody == Fibers \ {Root(t) : t \in Threads}

\* MainFunc has set m_state = TERM for f in this step
ReturnStep(f) ==
    \E t \in Threads : /\ w_pc[t] \in {"in_fiber", "exec"}
                       /\ w_pc'[t] = "trampoline"
                       /\ t_fiber[t] = f

\* C2: a fiber created with a body starts READY and changes state only by
\* READY -> RUNNING in resume, RUNNING -> READY in yield, RUNNING -> TERM when its
\* body returns, TERM -> READY in reset.
C2_Transitions ==
    /\ \A f \in WithBody : m_state[f] \in {"NONE", "READY"}
    /\ [][\A f \in WithBody :
            (Exists(f) /\ m_state'[f] # "NONE" /\ m_state'[f] # m_state[f]) =>
                \/ /\ m_state[f] = "READY" /\ m_state'[f] = "RUNNING"
                   /\ \E t \in Threads : Resume(t, f)
                \/ /\ m_state[f] = "RUNNING" /\ m_state'[f] = "READY"
                   /\ \E t \in Threads : Yield(t, f)
                \/ /\ m_state[f] = "RUNNING" /\ m_state'[f] = "TERM"
                   /\ ReturnStep(f)
                \/ /\ m_state[f] = "TERM" /\ m_state'[f] = "READY"
                   /\ UserReset(f)]_vars
    /\ [][\A f \in WithBody : (~Exists(f) /\ m_state'[f] # "NONE") => m_state'[f] = "READY"]_vars

\* a recycled fiber (reset after TERM) is running its new body
C2_Witness ==
    \E f \in TaskFibers : f_cb[f] = 2 /\ m_state[f] = "RUNNING"

----------------------------------------------------------------------------
(* Claims about the IOManager *)

\* no thread is inside an IOManager operation: no FdContext::mutex is held
Quiescent == \A fd \in Fds : fd_mutex[fd] = NoThread

ArmedSlots == {x \in Fds \X Events : x[2] \in events[x[1]]}
FilledSlots == {x \in Fds \X Events : event_ctx[x[1]][x[2]] # EmptyCtx}

\* C3: whenever no IOManager operation is in mid-transition, m_pendingEventCount is the
\* number of armed (fd, event) slots over all FdContexts; the counter never goes
\* below zero.
C3_PendingCountsArmed ==
    /\ m_pendingEventCount >= 0
    /\ Quiescent => m_pendingEventCount = Cardinality(ArmedSlots)

\* the reactor has triggered an event and another one is still armed
C3_Witness ==
    /\ Quiescent
    /\ idle_pc = "events"
    /\ m_tasks # <<>>
    /\ m_pendingEventCount = 1
    /\ io_adds = 2

\* a slot is non-empty when it holds a fiber or a callable
Holds(ctx) == ctx.fiber # NoFiber \/ ctx.cb # 0

\* C4: for every FdContext whose mutex is not held, the READ bit of events is set iff
\* the read slot holds a fiber or a callable, and the WRITE bit iff the write slot does.
C4_BitsMatchSlots ==
    \A fd \in Fds : fd_mutex[fd] = NoThread =>
        \A e \in Events : (e \in events[fd]) <=> Holds(event_ctx[fd][e])

\* READ is armed with a fiber while the WRITE slot has been emptied by a trigger that
\* scheduled its callable
C4_Witness ==
    \E fd \in Fds :
        /\ fd_mutex[fd] = NoThread
        /\ events[fd] = {"READ"}
        /\ event_ctx[fd]["READ"].fiber # NoFiber
        /\ \E i \in 1 .. Len(m_tasks) : m_tasks[i].cb # 0

\* readiness for e on fd has occurred and the reactor has not processed it yet
ReadyFor(fd, e) == e \in k_ready[fd] \/ e \in ep_events[fd]

\* the slot was filled by the n-th successful addEvent
IsSlotOf(ctx, n) == ctx.scheduler /\ (ctx.cb = n \/ ctx.fiber = n)

\* the callable or fiber stored by the n-th successful addEvent is in the task queue
Scheduled(n) == \E i \in 1 .. Len(m_tasks) : m_tasks[i].cb = n \/ m_tasks[i].fiber = n

\* C5: if addEvent(fd, e, cb) succeeded and readiness for e then occurs on fd while the
\* event is armed, the callable (or the fiber that called addEvent) is eventually
\* in the task queue, unless the event stops being armed otherwise.
C5_ReadyEventScheduled ==
    \A fd \in Fds, e \in Events, n \in 1 .. MaxAdds :
        (e \in events[fd] /\ IsSlotOf(event_ctx[fd][e], n) /\ ReadyFor(fd, e))
            ~> (Scheduled(n) \/ e \notin events[fd])

----------------------------------------------------------------------------
(* Claims about Timer and TimerManager *)

\* the worker takes the callable of timer t from the task queue and invokes it
RunsBody(t) == RunTask /\ Head(m_tasks) = TimerTask(t)

\* C6: once Timer::cancel() of a timer has returned (here: returned true, the timer was
\* still pending), no step invokes the body of that timer, whatever the interleaving of
\* cancel() with listExpiredCb and with the worker that runs the callables already drained.
C6_NoBodyAfterCancel ==
    [][\A t \in Timers : RunsBody(t) => ~cancelled[t]]_vars

\* the timer holds its callable: it was added and has neither fired for good nor been
\* cancelled
Active(t) == created[t] /\ m_cb[t]

\* C7: outside listExpiredCb, two distinct timers that hold their callable and have the
\* same next deadline are both members of the timer set.
C7_EqualDeadlinesBothMembers ==
    TimerLockFree =>
        \A t, u \in Timers :
            (t # u /\ Active(t) /\ Active(u) /\ m_next[t] = m_next[u])
                => (t \in m_timers /\ u \in m_timers)

\* the members listExpiredCb found with a deadline that had passed at `now`
Due == {t \in d_timers : d_next[t] <= now}

\* the loop of listExpiredCb is at its exit: the call returns with the state as it is
Returning == idle_pc = "drain" /\ ~Expired

\* C8: when a listExpiredCb call that saw no clock rollover returns, cbs holds the
\* callable of exactly the timers that were due, each once; a due non-recurring timer is
\* out of the set with m_cb cleared, a due recurring timer is in the set with
\* m_next = now + m_ms, and a member that was not due is in the set as it was.
C8_DrainExpired ==
    (Returning /\ ~rollover) =>
        /\ \A t \in Timers : Count(cbs, t) = (IF t \in Due THEN 1 ELSE 0)
        /\ \A t \in Due :
              IF m_recurring[t]
              THEN t \in m_timers /\ m_next[t] = now + Ms(m_ms[t])
              ELSE t \notin m_timers /\ ~m_cb[t]
        /\ \A t \in d_timers \ Due : t \in m_timers /\ m_next[t] = d_next[t]

\* C9: a listExpiredCb call that detected a clock rollover, and found only timers of a
\* period above 0, never holds the callable of a timer more than once, and when it
\* returns cbs holds the callable of every member it found exactly once and every
\* recurring one is in the set with m_next = now + m_ms.
C9_RolloverDrainsAllOnce ==
    (rollover /\ \A t \in d_timers : m_ms[t] > 0) =>
        /\ \A t \in Timers : Count(cbs, t) <= 1
        /\ Returning =>
              \A t \in d_timers :
                  /\ Count(cbs, t) = 1
                  /\ m_recurring[t] => (t \in m_timers /\ m_next[t] = now + Ms(m_ms[t]))

\* listExpiredCb is running, without a clock rollover, with a recurring timer of period 0
\* in the set
DrainingWithPeriodZero ==
    /\ idle_pc = "drain"
    /\ ~rollover
    /\ \E t \in m_timers : m_recurring[t] /\ m_ms[t] = 0

\* C10: a listExpiredCb call that runs with a recurring timer of period 0 in the set
\* returns, and idle() then yields to the scheduler.
C10_PeriodZeroYields == DrainingWithPeriodZero ~> (idle_pc = "yielded")

----------------------------------------------------------------------------
(* Claims about Scheduler::stop and Scheduler::run *)

\* stop() has returned and no task enqueued before the call is in the queue or in the
\* hands of a worker
StopDrained == pre_stop.left = 0 /\ \A t \in Threads : w_task[t] = NoTask

HasWorkers == m_useCaller \/ \E t \in Spawned : w_pc[t] # "none"

YieldedInBody(f) ==
    /\ m_state[f] = "READY"
    /\ ~InQueue(f)
    /\ \E t \in Threads : w_pc[t] = "after_task" /\ w_fiber[t] = f

\* C12: a task whose body yields is later resumed and runs its body to completion
\* (unless a failed assertion ends the process first).
C12_YieldedTaskCompletes ==
    \A f \in TaskFibers : YieldedInBody(f) ~> (m_state[f] = "TERM" \/ aborted)

\* C13: a task a worker has dequeued is unpinned (thread -1) or pinned to that very
\* worker: a task pinned to thread T is never taken by another thread.
C13_PinnedTaskOnItsThread ==
    \A t \in Threads :
        w_task[t] # NoTask => (w_task[t].thread = AnyThread \/ w_task[t].thread = t)

\* worker T runs a task pinned to T while another worker, which went through the
\* queue after it, sits in its idle fiber
C13_Witness ==
    \E T \in Spawned, u \in Spawned :
        /\ u # T
        /\ w_task[T].thread = T
        /\ w_pc[T] = "in_fiber"
        /\ w_pc[u] = "in_fiber"
        /\ w_fiber[u] = IdleF(u)

\* thread t takes a task out of the queue in this step
Dequeues(t) == w_pc[t] = "fetch" /\ w_pc'[t] = "lock"

\* position i holds the earliest-enqueued task of q that thread t may take
EarliestFor(q, t, i) ==
    /\ q[i].thread \in {AnyThread, t}
    /\ \A j \in 1 .. (i - 1) : q[j].thread \notin {AnyThread, t}

\* C14: each time a worker dequeues a task it takes the earliest-enqueued task in the
\* queue among those unpinned or pinned to it, and the other tasks keep their order.
C14_DequeuesInInsertionOrder ==
    [][\A t \in Threads :
          Dequeues(t) =>
              \E i \in 1 .. Len(m_tasks) :
                  /\ EarliestFor(m_tasks, t, i)
                  /\ w_task'[t] = m_tasks[i]
                  /\ m_tasks' = SubSeq(m_tasks, 1, i - 1) \o SubSeq(m_tasks, i + 1, Len(m_tasks))]_vars

\* a worker holds the callable that was second in the queue, behind a task pinned to
\* another thread that is still queued
C14_Witness ==
    \E t \in Spawned :
        /\ w_pc[t] = "lock"
        /\ m_tasks # <<>>
        /\ m_tasks[1].thread \notin {AnyThread, t}
        /\ w_task[t].cb # 0

\* C19: addEvent for an (fd, event) that is already armed returns -1 and leaves the
\* slot, the events bitset, the epoll registration and m_pendingEventCount as they were;
\* the calling thread is left outside any operation.
C19_AddOnArmedIsRejected ==
    [][\A c \in Callers, fd \in Fds, e \in Events, useCb \in BOOLEAN :
          (AddEvent(c, fd, e, useCb) /\ e \in events[fd]) =>
              /\ rt'[c] = Returned("addEvent", -1)
              /\ events' = events
              /\ event_ctx' = event_ctx
              /\ k_interest' = k_interest
              /\ m_pendingEventCount' = m_pendingEventCount
              /\ op'[c] = NoOp]_vars

\* an addEvent has returned -1 while the party of the first addEvent is still in its slot
C19_Witness ==
    \E c \in Callers, fd \in Fds, e \in Events :
        /\ rt[c] = Returned("addEvent", -1)
        /\ e \in events[fd]
        /\ event_ctx[fd][e] # EmptyCtx
        /\ m_pendingEventCount = 1

\* the party of an armed slot, as the task that resumes it: its callable, else its fiber
Party(ctx) == IF ctx.cb # 0
              THEN [fiber |-> NoFiber, cb |-> ctx.cb, thread |-> AnyThread]
              ELSE [fiber |-> ctx.fiber, cb |-> 0, thread |-> AnyThread]

Alone(h) == \A g \in HookFibers \ {h} : h_call[g] = NoCall

\* do_io of caller h is about to set its timeout timer: the raw read found nothing
ReadWithTimeout(h) ==
    /\ h_call[h].fn = "read"
    /\ h_pc[h] = "add_timer"
    /\ h_timeout[h] \in 1 .. MaxMs

\* the read of caller h has returned -1 with ETIMEDOUT and READ is not armed on its fd
ReadTimedOut(h) ==
    /\ h_pc[h] = "returned"
    /\ h_ret[h] = -1
    /\ h_errno[h] = ETIMEDOUT
    /\ "READ" \notin events[h_call[h].fd]

\* C15: an interposed read on a socket with a finite receive timeout, on which no
\* readiness ever occurs (and which nobody closes), eventually returns -1 with
\* errno = ETIMEDOUT, however the firing of the timeout timer interleaves with the
\* caller's addEvent and yield; after it returns READ is no longer armed.
C15_ReadTimesOut ==
    \A h \in HookFibers : (ReadWithTimeout(h) /\ Alone(h)) ~> (ReadTimedOut(h) \/ ~Alone(h))

\* caller a is parked in a read of fd with no timeout: READ is armed with its fiber
ParkedReader(a, fd) ==
    /\ h_call[a] = [fn |-> "read", fd |-> fd]
    /\ h_pc[a] = "parked"
    /\ h_timeout[a] = NoTimeout
    /\ "READ" \in events[fd]
    /\ event_ctx[fd]["READ"].fiber = a

\* caller b is inside the interposed close of fd, about to call cancelAll
Closing(b, fd) ==
    /\ h_call[b] = [fn |-> "close", fd |-> fd]
    /\ h_pc[b] = "cancel_all"

\* C16: when caller a is parked in an interposed read of fd and another party calls the
\* interposed close(fd), a is eventually resumed and its read returns -1 with
\* errno = EBADF, however a's retry of the raw read interleaves with the closer's
\* cancelAll, removal of the FdCtx and raw close.
C16_CloseWakesReader ==
    \A a \in HookFibers, b \in HookFibers, fd \in Fds :
        (ParkedReader(a, fd) /\ Closing(b, fd))
            ~> (h_pc[a] = "returned" /\ h_ret[a] = -1 /\ h_errno[a] = EBADF)

\* caller h is inside an interposed sleep with the hook enabled: its timer is set and
\* it is about to yield
Sleeping(h) == h_call[h].fn = "sleep" /\ h_pc[h] = "yield"

\* C17: with the hook enabled, a fiber that calls sleep / usleep / nanosleep gives up
\* its worker and is enqueued for resumption when its timer is drained; the call then
\* returns 0.
C17_SleeperReturns ==
    \A h \in HookFibers : Sleeping(h) ~> (h_pc[h] = "returned" /\ h_ret[h] = 0)

\* C18: with t_hook_enable false on the caller's thread every interposed operation is
\* the raw system call: the same arguments go to the kernel, its result is returned, and
\* no FdCtx is read into the result or modified.
C18_DisabledIsRaw ==
    [][\A h \in HookFibers : ~t_hook_enable[h] =>
          /\ \A fd \in Fds : Socket(h, fd) =>
                (RawSocket(fd) /\ h_ret'[h] = fd /\ UNCHANGED m_datas)
          /\ \A fd \in Fds, ms \in Periods : Setsockopt(h, fd, ms) =>
                (h_ret'[h] = 0 /\ UNCHANGED m_datas)
          /\ \A fd \in Fds, nonblock \in BOOLEAN : FcntlSetFl(h, fd, nonblock) =>
                (RawSetFl(fd, nonblock) /\ h_ret'[h] = 0 /\ UNCHANGED m_datas)
          /\ \A fd \in Fds : FcntlGetFl(h, fd) =>
                (h_ret'[h] = RawGetFl(fd) /\ UNCHANGED m_datas)
          /\ \A fd \in Fds, on \in BOOLEAN : Ioctl(h, fd, on) =>
                (RawSetFl(fd, on) /\ h_ret'[h] = 0 /\ UNCHANGED m_datas)
          /\ \A ms \in Periods : Sleep(h, ms) =>
                (h_pc'[h] = "returned" /\ h_ret'[h] = 0 /\ UNCHANGED <<m_timers, m_datas>>)
          /\ \A fd \in Fds : Read(h, fd) =>
                (RawRead(h, fd) /\ UNCHANGED <<events, m_timers, m_datas>>)
          /\ \A fd \in Fds : Close(h, fd) =>
                (RawClose(h, fd) /\ UNCHANGED <<events, m_tasks, m_datas>>)]_vars

----------------------------------------------------------------------------
(* Claims about delEvent, cancelAll and triggerEvent *)

\* the party of the slot is in the task queue q
Queued(ctx, q) == \E i \in 1 .. Len(q) : q[i] = TaskOf(ctx)

ArmedInOrder(fd) == SelectSeq(<<"READ", "WRITE">>, LAMBDA e : e \in events[fd])
PartiesInOrder(fd) == [i \in 1 .. Len(ArmedInOrder(fd)) |->
                          Party(event_ctx[fd][ArmedInOrder(fd)[i]])]

PartiesOf(fd, E) ==
    LET es == SelectSeq(<<"READ", "WRITE">>, LAMBDA e : e \in E)
    IN  [i \in 1 .. Len(es) |-> Party(event_ctx[fd][es[i]])]

\* triggerEvent has returned for the events E of fd: the party of each was appended to
\* the task queue of the scheduler its slot recorded, the bits are cleared, the slots are
\* empty and the other slot is as it was
TriggerReturned(fd, E) ==
    /\ E # {}
    /\ m_tasks' = m_tasks \o PartiesOf(fd, E)
    /\ \A e \in E : /\ event_ctx[fd][e].scheduler
                    /\ e \notin events'[fd]
                    /\ event_ctx'[fd][e] = EmptyCtx
    /\ \A e \in Events \ E : event_ctx'[fd][e] = event_ctx[fd][e]

\* C23: triggerEvent does not run the party of the slot: in cancelEvent, in cancelAll and
\* in idle() it appends the party to the task queue of the slot's scheduler, and when it
\* returns the event bit is cleared and the slot is empty.  A task leaves the queue only
\* when the worker, back in Scheduler::run from the idle fiber, takes it.
C23_TriggerOnlyEnqueues ==
    [][/\ \A c \in Callers :
             CancelEventFinish(c) => TriggerReturned(op[c].fd, {op[c].event})
       /\ \A c \in Callers :
             CancelAllFinish(c) => TriggerReturned(op[c].fd, events[op[c].fd])
       /\ \A fd \in Fds :
             (IdleEvent(fd) /\ ~aborted' /\ events'[fd] # events[fd]) =>
                 TriggerReturned(fd, events[fd] \ events'[fd])
       /\ m_tasks' # m_tasks =>
             \/ Len(m_tasks') > Len(m_tasks)
             \/ idle_pc = "yielded" /\ m_tasks' = Tail(m_tasks)]_vars

\* idle() has triggered READ and WRITE of an fd for one returned event, no cancelEvent or
\* cancelAll has run, and both parties wait in the queue while the thread is still in
\* idle()
C23_Witness ==
    /\ idle_pc = "events"
    /\ Len(m_tasks) = 2
    /\ m_pendingEventCount = 0
    /\ \A fd \in Fds : events[fd] = {} /\ fd_mutex[fd] = NoThread
    /\ \A c \in Callers : rt[c].fn \in {"none", "addEvent"}

----------------------------------------------------------------------------
(* Claims about sequences of IOManager operations and their return values *)

\* C24: when a successful addEvent(fd, E) is followed at once, with no other operation
\* of the IOManager in between, by delEvent(fd, E) of the same caller, the delEvent
\* returns true and leaves the events bitset of fd, the E slot (empty) and
\* m_pendingEventCount as the addEvent found them, and the slot of the other event is
\* what it was.
C24_AddThenDelRestores ==
    [][\A c \in Callers :
          (DelEventFinish(c) /\ FollowsAdd(c, op[c].fd, op[c].event)) =>
              /\ rt'[c] = Returned("delEvent", True)
              /\ events'[op[c].fd] = last_add.events
              /\ op[c].event \notin events'[op[c].fd]
              /\ event_ctx'[op[c].fd] = last_add.ctx
              /\ event_ctx'[op[c].fd][op[c].event] = EmptyCtx
              /\ m_pendingEventCount' = last_add.pending]_vars

\* an addEvent of WRITE on an fd whose READ was armed, and the delEvent of WRITE right
\* after it, have both returned: READ is still armed with its party and one event is
\* pending
C24_Witness ==
    \E c \in Callers :
        /\ rt[c] = Returned("delEvent", True)
        /\ ~last_add.valid
        /\ last_add.c = c
        /\ last_add.event = "WRITE"
        /\ last_add.events = {"READ"}
        /\ events[last_add.fd] = {"READ"}
        /\ event_ctx[last_add.fd]["READ"] # EmptyCtx
        /\ m_pendingEventCount = 1

\* C25: when epoll_ctl fails in delEvent, cancelEvent or cancelAll, the call returns
\* false and leaves the events bitset, the slots and m_pendingEventCount unchanged.
C25_FailedUpdateReturnsFalse ==
    [][\A c \in Callers, fd \in Fds :
          /\ \A e \in Events :
                (/\ DelEvent(c, fd, e)
                 /\ e \in events[fd]
                 /\ ~EpollCtlOk(fd, EpollOp(events[fd], events[fd] \ {e}))) =>
                    /\ rt'[c] = Returned("delEvent", False)
                    /\ UNCHANGED <<events, event_ctx, m_pendingEventCount>>
          /\ \A e \in Events :
                (/\ CancelEvent(c, fd, e)
                 /\ e \in events[fd]
                 /\ ~EpollCtlOk(fd, EpollOp(events[fd], events[fd] \ {e}))) =>
                    /\ rt'[c] = Returned("cancelEvent", False)
                    /\ UNCHANGED <<events, event_ctx, m_pendingEventCount>>
          /\ (CancelAll(c, fd) /\ events[fd] # {} /\ ~EpollCtlOk(fd, "DEL")) =>
                    /\ rt'[c] = Returned("cancelAll", False)
                    /\ UNCHANGED <<events, event_ctx, m_pendingEventCount>>]_vars

----------------------------------------------------------------------------
(* Claims about getNextTimer, onTimerInsertedAtFront, cancel and refresh *)

\* C26: getNextTimer returns 0 if and only if the set holds a timer whose m_next is
\* <= now; whenever every timer's m_next is later than now it returns a value greater
\* than 0.  (idle() keeps min(getNextTimer(), MAX_TIMEOUT), which is 0 exactly when the
\* returned value is.)
C26_NextZeroIffDue ==
    [][IdleTimeout =>
          /\ (next_timeout' = 0) <=> (\E t \in m_timers : m_next[t] <= clock)
          /\ (\A t \in m_timers : m_next[t] > clock) => next_timeout' > 0]_vars

\* C27: between two consecutive getNextTimer calls onTimerInsertedAtFront is called at
\* most once, however many timers are put at the front of the set and from however
\* many threads.
C27_OneFrontCallPerQuery == front_calls <= 1

\* C28: cancel() on a timer that was already cancelled returns false and changes neither
\* that timer (m_cb, m_ms, m_next, m_recurring) nor the contents of the timer set.
C28_CancelTwiceIsNoOp ==
    [][\A t \in Timers :
          (Cancel(t) /\ cancelled[t]) =>
              /\ TimerCancelReturn(t) = False
              /\ t \in refused'
              /\ UNCHANGED <<m_cb, m_ms, m_next, m_recurring, m_timers>>]_vars

\* a timer that never expired was cancelled and then refused a second cancel(), while
\* another timer is a member of the set
C28_Witness ==
    \E t \in Timers :
        /\ cancelled[t]
        /\ t \in refused
        /\ t \notin fired
        /\ m_timers \ {t} # {}

\* C29: cancel() called on a timer after listExpiredCb has returned its callable returns
\* false.
C29_CancelAfterFireReturnsFalse ==
    [][\A t \in Timers :
          (Cancel(t) /\ t \in fired) =>
              /\ TimerCancelReturn(t) = False
              /\ t \in refused']_vars

\* C29, as the code has it: cancel() on a timer whose callable listExpiredCb has returned
\* returns false when the timer is not recurring or was cancelled since; on a recurring
\* timer that was not cancelled it returns true.
C29_CancelAfterFireByRecurrence ==
    [][\A t \in Timers :
          (Cancel(t) /\ t \in fired) =>
              /\ (~m_recurring[t] \/ cancelled[t]) =>
                    TimerCancelReturn(t) = False /\ t \in refused'
              /\ (m_recurring[t] /\ ~cancelled[t]) =>
                    TimerCancelReturn(t) = True /\ cancelled'[t]]_vars

\* a timer that is not recurring has expired, and a cancel() of it was refused although
\* no cancel() of it ever went through
C29_Witness ==
    \E t \in Timers :
        /\ t \in fired
        /\ ~m_recurring[t]
        /\ ~cancelled[t]
        /\ t \in refused

\* C30: for a timer that is a member of the set, two refresh() calls in a row at the same
\* instant leave the timer and the set as one refresh() does: the timer is a member of
\* the set with m_next = now + m_ms, m_ms and m_cb are unchanged, and every other timer is
\* untouched.
C30_RefreshTwiceIsOnce ==
    [][\A t \in Timers :
          (Refresh(t) /\ FollowsRefresh(t) /\ last_refresh.active) =>
              /\ m_timers' = last_refresh.after
              /\ t \in m_timers'
              /\ m_timers' \ {t} = last_refresh.before \ {t}
              /\ m_next'[t] = last_refresh.next
              /\ m_next'[t] = clock + Ms(m_ms[t])
              /\ \A u \in Timers \ {t} : m_next'[u] = m_next[u]
              /\ UNCHANGED <<m_ms, m_cb>>]_vars

----------------------------------------------------------------------------
(* Claims about stop() *)

\* C31: a stop() called after a first stop() has returned, from a thread the asserts of
\* stop() accept, is a safe no-op: no assertion fails in it, it does not resume the
\* scheduler fiber again and it ends without a thread to wait for.
C31_SecondStopIsSafe ==
    [][/\ \A s \in {Main, Ext} : (StopAgain(s) /\ StopAsserts(s)) => ~aborted'
       /\ pre_stop.calls > 1 => ~StopResume]_vars

\* C32: stop() passes its asserts when it is called on the caller thread of a scheduler
\* built with use_caller = true, and when it is called on any thread that is not a worker
\* (the constructing thread included) of a scheduler built with use_caller = false.
C32_StopPassesItsAsserts ==
    [][\A s \in {Main, Ext} :
          (/\ StopBegin(s)
           /\ IF m_useCaller THEN s = Main ELSE s \notin Spawned) => ~aborted']_vars

----------------------------------------------------------------------------
(* Claims about the reactor loop and the workers *)

\* C33: in idle() the events triggered for a returned fd are among the events armed in its
\* FdContext at that moment: triggerEvent is never called for an event that is not armed,
\* also when epoll returned READ and WRITE together and one of them was deleted,
\* cancelled or fired before idle() took FdContext::mutex.
C33_TriggeredAreArmed ==
    [][\A fd \in Fds :
          LET real == RealEvents(ep_events[fd], events[fd])
          IN  (/\ IdleEvent(fd)
               /\ events[fd] \cap real # {}
               /\ EpollCtlOk(fd, EpollOp(events[fd], events[fd] \ real))) =>
                  /\ real \subseteq events[fd]
                  /\ ~aborted']_vars

\* C34: a fiber that was enqueued before it has yielded on its worker is not resumed by
\* another worker while it is RUNNING: run() resumes under Fiber::m_mutex, which the
\* worker that resumed the fiber holds until the fiber has switched back, so every
\* resume() issued by run() finds the fiber READY, and a fiber that is TERM is skipped.
C34_WorkerResumesReady ==
    [][\A t \in Threads :
          ExecResume(t) =>
              /\ m_state[w_fiber[t]] \in {"READY", "TERM"}
              /\ m_state[w_fiber[t]] = "TERM" => UNCHANGED <<m_state, t_fiber>>
              /\ ~aborted']_vars

\* a worker waits for Fiber::m_mutex of a fiber that is RUNNING on another worker and
\* that is its task
C34_Witness ==
    \E a, b \in Threads :
        /\ a # b
        /\ w_pc[b] = "lock"
        /\ w_fiber[b] = w_fiber[a]
        /\ f_mutex[w_fiber[b]] = a
        /\ m_state[w_fiber[b]] = "RUNNING"
        /\ t_fiber[a] = w_fiber[b]

\* C35: a scheduleLock on an empty queue is not missed by a worker that is going idle: no
\* thread is inside epoll_wait while the queue holds a task it may take, unless
\* m_tickleFds has a wake-up pending (or the tickle() of that scheduleLock is still to be
\* called).
C35_NoWaitWithTaskQueued ==
    \A t \in in_wait :
        FirstEligible(m_tasks, t) # 0 => (tickle_ready \/ need_tickle)

----------------------------------------------------------------------------
(* Claims about a party's resumption and about FdManager *)

\* the slots that hold the fiber of caller h, the tasks in the queue that resume it, and
\* the worker that took such a task and waits for Fiber::m_mutex
SlotsOf(h) == Cardinality({x \in Fds \X Events : event_ctx[x[1]][x[2]].fiber = h})
ResumesQueued(h) == Count(m_tasks, FiberTask(h))
ResumesOf(h) == SlotsOf(h) + ResumesQueued(h) + (IF h \in h_pending THEN 1 ELSE 0)

\* C36: for each addEvent that succeeded the party is enqueued at most once in total, by
\* whichever of idle(), cancelEvent, cancelAll or the timer of do_io comes first: a fiber
\* inside do_io is in a slot, or once in the queue, or taken by one worker, never two of
\* these, and it is put in the queue only in a step that empties its slot.
C36_PartyEnqueuedOnce ==
    /\ [](\A h \in HookFibers : h_call[h].fn = "read" => ResumesOf(h) <= 1)
    /\ [][\A h \in HookFibers :
             (h_call[h].fn = "read" /\ ResumesQueued(h)' > ResumesQueued(h)) =>
                 /\ SlotsOf(h) = 1
                 /\ SlotsOf(h)' = 0
                 /\ ResumesQueued(h)' = ResumesQueued(h) + 1]_vars

\* the timer of a read has set ETIMEDOUT and its cancelEvent has put the parked reader in
\* the queue, once, and emptied the slot
C36_Witness ==
    \E h \in HookFibers :
        /\ h_call[h].fn = "read"
        /\ h_pc[h] = "parked"
        /\ tinfo[h] = ETIMEDOUT
        /\ ResumesQueued(h) = 1
        /\ SlotsOf(h) = 0

\* C37: between removals, the calls of get(fd, true) for one fd are all given the same
\* FdCtx, and it is the one m_datas[fd] holds, so that a later get(fd) returns it with
\* what was recorded on it
C37_OneCtxPerFd ==
    \A c \in Getters :
        (/\ get_call[c].pc = "done"
         /\ get_call[c].auto_create
         /\ get_call[c].fd # InvalidFd
         /\ ~get_call[c].crossed)
        => /\ datas_ctx[get_call[c].fd] = get_call[c].ret
           /\ \A d \in Getters :
                  (/\ get_call[d].pc = "done"
                   /\ get_call[d].auto_create
                   /\ get_call[d].fd = get_call[c].fd
                   /\ ~get_call[d].crossed)
                  => get_call[d].ret = get_call[c].ret

\* C38: a timer whose cancel() has returned true is not a member of m_timers afterwards
C38_CancelledStaysOut == \A t \in Timers : cancelled[t] => t \notin m_timers

\* C40: when get(fd, true) or addEvent(fd, ...) has resized its vector, the size is
\* greater than fd
C40_GrownBeyondFd ==
    [][\A c \in Getters :
          /\ (GetCreate(c) /\ get_call'[c].grown) => datas_size' > get_call[c].fd
          /\ AddEventResize(c) => fdContexts_size' > get_call[c].fd]_vars

\* one thread's get() has grown m_datas and another's addEvent has resized m_fdContexts
C40_Witness ==
    \E c, d \in Getters :
        /\ get_call[c].pc = "done" /\ get_call[c].grown
        /\ datas_size > DatasInitialSize
        /\ get_call[d].pc = "found" /\ get_call[d].grown
        /\ fdContexts_size > ContextsInitialSize

----------------------------------------------------------------------------
(* Claims about the end of stop() *)

\* stop() is past its asserts and has not returned
StopRunning == stop_pc \in {"resume", "in_sched", "join"}

\* stop() has returned and every thread start() has spawned has left run()
StopReturned == stop_pc = "done" /\ \A t \in Spawned : w_pc[t] \in {"none", "exited"}

\* thread t is in run(), or is the caller thread that stop() is about to put there
Serves(t) == w_pc[t] \notin {"none", "exited"} \/ (t = stop_thread /\ stop_pc = "resume")

\* every task in the queue may be taken by a thread that serves the queue
PinnedToServed ==
    \A i \in 1 .. Len(m_tasks) :
        m_tasks[i].thread = AnyThread \/ Serves(m_tasks[i].thread)

====
